---- MODULE Spec2Model ----
(***************************************************************************)
(* The task router of krolik (krolik/llm/router.py) and the model registry *)
(* it reads (krolik/llm/models.py).                                        *)
(*                                                                         *)
(* Text is a TLA+ string.  The source's tables hold Cyrillic keywords; a   *)
(* Cyrillic letter is written here as two ASCII characters, "~" or "^"     *)
(* followed by a Latin letter (upper case for an upper-case Cyrillic       *)
(* letter).  "~" and "^" occur nowhere else in a text, so a keyword is a   *)
(* substring of the written text exactly when it is one of the original,   *)
(* and lower-casing the Latin letters lower-cases the Cyrillic ones.       *)
(* Operators that count characters (a slice, a regular expression's \w)    *)
(* read such a pair as one character.  A backquote is written "@".         *)
(*                                                                         *)
(* Costs are in thousandths of a dollar per 1M tokens.  Rates, latencies   *)
(* and composite scores are exact rationals <<numerator, denominator>>.    *)
(***************************************************************************)
EXTENDS Integers, Sequences, FiniteSets, TLC

\* ------------------------------------------------------------------ text

Max(a, b) == IF a >= b THEN a ELSE b
Min(a, b) == IF a <= b THEN a ELSE b

\* Python: k in s
Contains(s, k) ==
    \E i \in 1..(Len(s) - Len(k) + 1) : SubSeq(s, i, i + Len(k) - 1) = k

\* Python: one character's str.lower()
LowerChar(c) ==
    CASE c = "A" -> "a" [] c = "B" -> "b" [] c = "C" -> "c" [] c = "D" -> "d"
      [] c = "E" -> "e" [] c = "F" -> "f" [] c = "G" -> "g" [] c = "H" -> "h"
      [] c = "I" -> "i" [] c = "J" -> "j" [] c = "K" -> "k" [] c = "L" -> "l"
      [] c = "M" -> "m" [] c = "N" -> "n" [] c = "O" -> "o" [] c = "P" -> "p"
      [] c = "Q" -> "q" [] c = "R" -> "r" [] c = "S" -> "s" [] c = "T" -> "t"
      [] c = "U" -> "u" [] c = "V" -> "v" [] c = "W" -> "w" [] c = "X" -> "x"
      [] c = "Y" -> "y" [] c = "Z" -> "z" [] OTHER -> c

\* the concatenation of f(lo), ..., f(hi), by halves
RECURSIVE ConcatMap(_, _, _)
ConcatMap(f(_), lo, hi) ==
    IF lo > hi THEN ""
    ELSE IF lo = hi THEN f(lo)
    ELSE LET mid == (lo + hi) \div 2 IN ConcatMap(f, lo, mid) \o ConcatMap(f, mid + 1, hi)

\* the sum of f(lo), ..., f(hi), by halves
RECURSIVE SumMap(_, _, _)
SumMap(f(_), lo, hi) ==
    IF lo > hi THEN 0
    ELSE IF lo = hi THEN f(lo)
    ELSE LET mid == (lo + hi) \div 2 IN SumMap(f, lo, mid) + SumMap(f, mid + 1, hi)

\* the character of s at i, "" outside s
At(s, i) == IF i >= 1 /\ i <= Len(s) THEN SubSeq(s, i, i) ELSE ""

\* Python: s.lower()
Lower(s) == ConcatMap(LAMBDA i : LowerChar(At(s, i)), 1, Len(s))

\* Python: c.isspace(), for the whitespace a task holds
IsSpace(c) == c \in {" ", "\n", "\t", "\r"}

\* Python: len(s.split()): the number of maximal runs of non-whitespace
WordCount(s) ==
    Cardinality({i \in 1..Len(s) :
        /\ ~IsSpace(SubSeq(s, i, i))
        /\ (i = 1 \/ IsSpace(SubSeq(s, i - 1, i - 1)))})

\* Python: s.count(k), for a k no two occurrences of which can overlap
\* ("- ", "* ", "\n")
Count(s, k) ==
    Cardinality({i \in 1..(Len(s) - Len(k) + 1) : SubSeq(s, i, i + Len(k) - 1) = k})

\* re.search(r"a.*b", s): a, then any characters but a newline, then b
ContainsThenOnLine(s, a, b) ==
    \E i \in 1..(Len(s) - Len(a) + 1) :
        /\ SubSeq(s, i, i + Len(a) - 1) = a
        /\ \E j \in (i + Len(a))..(Len(s) - Len(b) + 1) :
              /\ SubSeq(s, j, j + Len(b) - 1) = b
              /\ ~Contains(SubSeq(s, i + Len(a), j - 1), "\n")

\* re.search of an alternation of literals
ContainsAny(s, ks) == \E k \in ks : Contains(s, k)

\* ------------------------------------------------------------ the tables

TIER_THRESHOLDS ==
    << <<"free", 0, 25>>, <<"cheap", 26, 45>>,
       <<"standard", 46, 70>>, <<"premium", 71, 100>> >>

\* TIER_THRESHOLDS[name]
Threshold(name) ==
    LET i == CHOOSE i \in 1..Len(TIER_THRESHOLDS) : TIER_THRESHOLDS[i][1] = name
    IN <<TIER_THRESHOLDS[i][2], TIER_THRESHOLDS[i][3]>>

BASE_SCORES ==
    [trivial |-> 10, simple |-> 20, content |-> 35, general |-> 35,
     code |-> 50, research |-> 50, analysis |-> 60, architect |-> 80]

COMPLEXITY_KEYWORDS ==
    <<
       <<"architect", 25>>, <<"design system", 25>>, <<"security audit", 25>>,
       <<"refactor entire", 25>>, <<"performance optimization", 20>>, <<"rewrite", 20>>,
       <<"migrate", 18>>, <<"integrate", 15>>, <<"complex", 15>>,
       <<"analyze", 12>>, <<"debug", 12>>, <<"implement", 10>>,
       <<"add feature", 10>>, <<"create", 8>>, <<"build", 8>>,
       <<"fix bug", 6>>, <<"update", 5>>, <<"format", -10>>,
       <<"rename", -10>>, <<"typo", -15>>, <<"comment", -8>>,
       <<"simple", -15>>, <<"quick", -10>>, <<"trivial", -15>>,
       <<"lint", -12>>, <<"~a~r~h~i~t~e~k~t~u~r", 25>>, <<"~s~p~r~o~e~k~t~i~r", 25>>,
       <<"~b~e~z~o~p~a~s~n~o~s~t", 20>>, <<"~r~e~f~a~k~t~o~r", 20>>, <<"~o~p~t~i~m~i~z~i~r", 15>>,
       <<"~m~i~g~r~i~r", 18>>, <<"~i~n~t~e~g~r~i~r", 15>>, <<"~s~l~o~j~n", 15>>,
       <<"~k~o~m~p~l~e~k~s~n", 15>>, <<"~a~n~a~l~i~z", 12>>, <<"~o~t~l~a~d~k", 12>>,
       <<"~r~e~a~l~i~z", 10>>, <<"~s~o~z~d~a~y ~p~o~d~b~o~r~k", 12>>, <<"~n~a~p~i~w~i ~s~t~a~t^m^u", 10>>,
       <<"~s~o~z~d~a~y", 8>>, <<"~n~a~p~i~w~i", 6>>, <<"~i~s~p~r~a~v", 5>>,
       <<"~o~b~n~o~v", 5>>, <<"~g~l~u~b~o~k~i~y ~a~n~a~l~i~z", 20>>, <<"~t~e~h~n~i~q~e~s~k", 12>>,
       <<"~d~e~l~e~g~i~r~u~y", 10>>, <<"~o~r~k~e~s~t~r~i~r~u~y", 12>>, <<"~r~a~s~p~a~r~a~l~l~e~l^m", 15>>,
       <<"~p~a~r~s", 8>>, <<"~s~p~a~r~s", 8>>, <<"seo", 10>>,
       <<"~o~p~e~q~a~t~k", -15>>, <<"~p~r~o~s~t~o~y", -12>>, <<"~b^y~s~t~r~o", -10>>,
       <<"~m~e~l~k", -10>>, <<"~p~e~r~e~v~e~d", 5>>
    >>

RESEARCH_KEYWORDS ==
    <<
       "research", "find out", "search for", "compare",
       "alternatives", "what is", "how does", "explore",
       "investigate", "benchmark", "latest", "news",
       "look up", "~i~s~s~l~e~d~u~y", "~n~a~y~d~i ~i~n~f~o~r~m~a~c~i^u", "~s~r~a~v~n~i",
       "~a~l^m~t~e~r~n~a~t~i~v", "~q~t~o ~t~a~k~o~e", "~k~a~k ~r~a~b~o~t~a~e~t", "~i~z~u~q~i",
       "~p~r~o~a~n~a~l~i~z~i~r~u~y ~r^y~n~o~k"
    >>

\* ------------------------------------------------------- the classifier

\* a faulty classifier, which looks for the code patterns first
DetectTaskTypeCodeFirst(task) ==
    LET lower == Lower(task) IN
    IF ContainsAny(lower, {"code", "implement", "function", "class", "module", "api"})
        THEN "code"
    ELSE IF \E i \in 1..Len(RESEARCH_KEYWORDS) : Contains(lower, RESEARCH_KEYWORDS[i])
        THEN "research"
    ELSE IF \/ ContainsAny(lower, {"architect", "infrastructure"})
            \/ ContainsThenOnLine(lower, "design", "system")
        THEN "architect"
    ELSE IF ContainsAny(lower, {"typo", "format", "rename", "lint"})
        THEN "trivial"
    ELSE IF ContainsAny(lower, {"simple", "quick", "trivial"})
        THEN "simple"
    ELSE IF ContainsAny(lower, {"write", "article", "content", "blog", "documentation"})
        THEN "content"
    ELSE IF ContainsAny(lower, {"analyze", "report", "data", "metrics"})
        THEN "analysis"
    ELSE "general"

\* ModelRouter._detect_task_type
DetectTaskType(task) ==
    LET lower == Lower(task) IN
    IF \E i \in 1..Len(RESEARCH_KEYWORDS) : Contains(lower, RESEARCH_KEYWORDS[i])
        THEN "research"
    ELSE IF \/ ContainsAny(lower, {"architect", "infrastructure"})
            \/ ContainsThenOnLine(lower, "design", "system")
        THEN "architect"
    ELSE IF ContainsAny(lower, {"typo", "format", "rename", "lint"})
        THEN "trivial"
    ELSE IF ContainsAny(lower, {"simple", "quick", "trivial"})
        THEN "simple"
    ELSE IF ContainsAny(lower, {"code", "implement", "function", "class", "module", "api"})
        THEN "code"
    ELSE IF ContainsAny(lower, {"write", "article", "content", "blog", "documentation"})
        THEN "content"
    ELSE IF ContainsAny(lower, {"analyze", "report", "data", "metrics"})
        THEN "analysis"
    ELSE "general"

\* -------------------------------------------------------------- numbers

RECURSIVE GCD(_, _)
GCD(a, b) == IF b = 0 THEN a ELSE GCD(b, a % b)

\* The rational n/d (d > 0) in lowest terms
Frac(n, d) ==
    LET g == GCD(IF n < 0 THEN -n ELSE n, d) IN <<n \div g, d \div g>>

FracLess(a, b) == a[1] * b[2] < b[1] * a[2]

\* ------------------------------------------------- krolik/llm/models.py

Tiers == {"free", "cheap", "standard", "premium", "research"}

Capabilities == {"chat", "code", "vision", "reasoning", "search", "long_context"}

\* Python's None, where the other values are strings
None == "None"

\* An optional value that is not a string is <<>> (None) or <<v>>
Nothing == <<>>
Some(v) == <<v>>

\* Python: d.get(k, default) of a dict
Get(d, k, default) == IF k \in DOMAIN d THEN d[k] ELSE default

\* Python: s.startswith(p)
StartsWith(s, p) == Len(s) >= Len(p) /\ SubSeq(s, 1, Len(p)) = p

\* Python: s.split("/")[0] if "/" in s else s
FirstSegment(s) ==
    IF Contains(s, "/")
    THEN LET i == CHOOSE i \in 1..Len(s) :
                    /\ SubSeq(s, i, i) = "/"
                    /\ \A j \in 1..(i - 1) : SubSeq(s, j, j) # "/"
         IN SubSeq(s, 1, i - 1)
    ELSE s

\* _infer_provider
InferProvider(model_id) ==
    IF StartsWith(model_id, "cliproxy/") THEN "cliproxy"
    ELSE IF StartsWith(model_id, "openrouter/") THEN "openrouter"
    ELSE LET first == FirstSegment(model_id) IN
         CASE first = "anthropic" -> "anthropic"
           [] first \in {"google", "gemini"} -> "gemini"
           [] first = "openai" -> "openai"
           [] OTHER -> "openrouter"

\* ModelSpec.from_dict raises (KeyError, ValueError) on these dicts
SpecFromDictRaises(d) ==
    \/ "id" \notin DOMAIN d
    \/ Get(d, "tier", "standard") \notin Tiers
    \/ ~(Get(d, "capabilities", {"chat"}) \subseteq Capabilities)

\* ModelSpec.from_dict
SpecFromDict(d) ==
    [id |-> d["id"],
     provider |-> Get(d, "provider", InferProvider(d["id"])),
     tier |-> Get(d, "tier", "standard"),
     cost_per_1m_input |-> Get(d, "cost_per_1m_input", 0),
     cost_per_1m_output |-> Get(d, "cost_per_1m_output", 0),
     priority |-> Get(d, "priority", 50),
     speed |-> Get(d, "speed", 3),
     capabilities |-> Get(d, "capabilities", {"chat"}),
     aliases |-> Get(d, "aliases", <<>>),
     status |-> Get(d, "status", "active")]

\* ModelSpec.is_free
is_free(spec) == spec.cost_per_1m_input = 0 /\ spec.cost_per_1m_output = 0

\* _DEFAULTS
DEFAULTS ==
    << [id |-> "cliproxy/gemini-2.5-flash", provider |-> "cliproxy", tier |-> "free",
        speed |-> 5, capabilities |-> {"chat", "code", "vision"},
        aliases |-> <<"cliproxy-flash">>],
       [id |-> "cliproxy/claude-sonnet-4-5", provider |-> "cliproxy", tier |-> "free",
        speed |-> 3, capabilities |-> {"chat", "code", "reasoning"},
        aliases |-> <<"cliproxy-sonnet">>],
       [id |-> "openrouter/perplexity/sonar-pro", provider |-> "openrouter",
        tier |-> "research", cost_per_1m_input |-> 3000, cost_per_1m_output |-> 15000,
        capabilities |-> {"chat", "search"}, aliases |-> <<"perplexity", "sonar">>] >>

\* The registry is the pair of dicts [by_id, by_alias].  by_id keeps Python's
\* insertion order: it is the sequence of its values.

\* dict.pop(id, None) on by_id
PopId(ids, id) == SelectSeq(ids, LAMBDA s : s.id # id)

\* by_id[spec.id] = spec: an existing key keeps its place, a new one goes last
PutId(ids, spec) ==
    IF \E i \in 1..Len(ids) : ids[i].id = spec.id
    THEN [i \in 1..Len(ids) |-> IF ids[i].id = spec.id THEN spec ELSE ids[i]]
    ELSE Append(ids, spec)

\* for alias in spec.aliases: by_alias[alias.lower()] = spec
PutAliases(al, spec) ==
    LET new == {Lower(spec.aliases[i]) : i \in 1..Len(spec.aliases)} IN
    [a \in DOMAIN al \cup new |-> IF a \in new THEN spec ELSE al[a]]

\* ModelRegistry.register
RegistryRegister(reg, spec) ==
    IF spec.status # "active"
    THEN [reg EXCEPT !.by_id = PopId(reg.by_id, spec.id)]
    ELSE [by_id |-> PutId(reg.by_id, spec), by_alias |-> PutAliases(reg.by_alias, spec)]

\* registering the loadable entries of a sequence of dicts, in order
RECURSIVE RegisterAll(_, _)
RegisterAll(reg, ds) ==
    IF ds = <<>> THEN reg
    ELSE RegisterAll(IF SpecFromDictRaises(Head(ds)) THEN reg
                     ELSE RegistryRegister(reg, SpecFromDict(Head(ds))),
                     Tail(ds))

EmptyAliases == [a \in {} |-> None]

\* ModelRegistry.__init__ with _load_cache: cache is Nothing (no cache file)
\* or Some("models" list of the cache file)
RegistryInit(cache) ==
    LET base == RegisterAll([by_id |-> <<>>, by_alias |-> EmptyAliases], DEFAULTS) IN
    IF cache = Nothing THEN base ELSE RegisterAll(base, cache[1])

\* ModelRegistry.get: _by_id.get(id_or_alias) or _by_alias.get(id_or_alias.lower())
RegistryGet(reg, id_or_alias) ==
    IF \E i \in 1..Len(reg.by_id) : reg.by_id[i].id = id_or_alias
    THEN Some(reg.by_id[CHOOSE i \in 1..Len(reg.by_id) : reg.by_id[i].id = id_or_alias])
    ELSE IF Lower(id_or_alias) \in DOMAIN reg.by_alias
         THEN Some(reg.by_alias[Lower(id_or_alias)])
         ELSE Nothing

\* ModelRegistry.list_by_tier
list_by_tier(reg, tier) == SelectSeq(reg.by_id, LAMBDA s : s.tier = tier)

\* classify_tier_by_cost; a cost is in thousandths of a dollar per 1M tokens
classify_tier_by_cost(cost_per_1m) ==
    IF cost_per_1m <= 0 THEN "free"
    ELSE IF cost_per_1m < 50 THEN "cheap"
    ELSE IF cost_per_1m < 150 THEN "standard"
    ELSE "premium"

\* The ModelSpec that discover() builds from the entry m of the API's "data"
\* list at the time now.  A price of m is the API's price per token times
\* 1_000_000: the cost per 1M tokens, in thousandths of a dollar.
DiscoveredSpec(m, now) ==
    LET model_id == m.id
        full_id == "openrouter/" \o model_id
        pricing == Get(m, "pricing", <<>>)
        cost_per_1m_input == Get(pricing, "prompt", 0)
        cost_per_1m_output == Get(pricing, "completion", 0)
        ctx == Get(m, "context_length", 128000)
        created == Get(m, "created", 0)
        description == Get(m, "description", "")
        calculate_priority ==
            LET cost == IF cost_per_1m_input = 0 THEN 20
                        ELSE IF cost_per_1m_input < 20 THEN 15
                        ELSE IF cost_per_1m_input < 50 THEN 10 ELSE 0
                context == IF ctx >= 128000 THEN 15
                           ELSE IF ctx >= 32000 THEN 10
                           ELSE IF ctx >= 16000 THEN 5 ELSE 0
                recency == IF created = 0 THEN 0
                           ELSE IF now - created < 30 * 86400 THEN 10
                           ELSE IF now - created < 90 * 86400 THEN 5 ELSE 0
                brand == IF ContainsAny(Lower(full_id), {"claude", "gemini", "gpt-4", "gpt-5"})
                         THEN 5 ELSE 0
            IN Max(0, Min(100, 50 + cost + context + recency + brand))
        lower == Lower(model_id \o " " \o description)
        detect_capabilities ==
            {"chat"}
            \cup (IF ContainsAny(lower, {"code", "codex", "codestral", "starcoder", "deepseek-coder"})
                  THEN {"code"} ELSE {})
            \cup (IF ContainsAny(lower, {"vision", "image", "multimodal", "4o", "gemini"})
                  THEN {"vision"} ELSE {})
            \cup (IF ContainsAny(lower, {"reason", "thinking", "o1", "o3", "r1"})
                  THEN {"reasoning"} ELSE {})
            \cup (IF ContainsAny(lower, {"sonar", "perplexity", "search"})
                  THEN {"search"} ELSE {})
            \cup (IF ContainsAny(lower, {"claude", "gpt-4", "gpt-5", "gemini", "llama-3"})
                  THEN {"code", "reasoning"} ELSE {})
    IN [id |-> full_id,
        provider |-> "openrouter",
        tier |-> IF ContainsAny(Lower(model_id), {"perplexity", "sonar"}) THEN "research"
                 ELSE classify_tier_by_cost(cost_per_1m_input),
        cost_per_1m_input |-> cost_per_1m_input,
        cost_per_1m_output |-> cost_per_1m_output,
        priority |-> calculate_priority,
        speed |-> IF Contains(Lower(model_id), "flash") \/ cost_per_1m_input = 0 THEN 5
                  ELSE IF cost_per_1m_input > 5000 THEN 2 ELSE 3,
        capabilities |-> detect_capabilities,
        aliases |-> <<>>,
        status |-> "active"]

\* ------------------------------------------------- krolik/llm/router.py

\* OutcomeRecord.to_dict
RecordToDict(o) ==
    [sig |-> o.signature, model |-> o.model_id, outcome |-> o.outcome,
     task |-> o.task_preview, ts |-> o.timestamp, latency |-> o.latency_ms]

\* OutcomeRecord.from_dict raises KeyError on these dicts
RecordFromDictRaises(d) == ~({"sig", "model", "outcome"} \subseteq DOMAIN d)

\* a faulty from_dict, which reads the outcome under a key to_dict never writes
RecordFromDictWrongKey(d) ==
    [signature |-> d["sig"], model_id |-> d["model"],
     outcome |-> Get(d, "result", "success"),
     task_preview |-> Get(d, "task", ""), timestamp |-> Get(d, "ts", 0),
     latency_ms |-> Get(d, "latency", 0)]

\* OutcomeRecord.from_dict
RecordFromDict(d) ==
    [signature |-> d["sig"], model_id |-> d["model"], outcome |-> d["outcome"],
     task_preview |-> Get(d, "task", ""), timestamp |-> Get(d, "ts", 0),
     latency_ms |-> Get(d, "latency", 0)]

\* Python: [f(x) for x in xs]
MapSeq(f(_), xs) == [i \in 1..Len(xs) |-> f(xs[i])]

\* a faulty rate, over the records of every model
SuccessRateOfAll(outs, model_id) ==
    LET relevant == SelectSeq(outs, LAMBDA o : o.model_id = model_id) IN
    IF relevant = <<>> THEN <<1, 1>>
    ELSE Frac(Len(SelectSeq(relevant, LAMBDA o : o.outcome = "success")), Len(outs))

\* ModelRouter.get_success_rate: 1.0 with no record of the model
get_success_rate(outs, model_id) ==
    LET relevant == SelectSeq(outs, LAMBDA o : o.model_id = model_id) IN
    IF relevant = <<>> THEN <<1, 1>>
    ELSE Frac(Len(SelectSeq(relevant, LAMBDA o : o.outcome = "success")), Len(relevant))

SumLatency(xs) == SumMap(LAMBDA i : xs[i].latency_ms, 1, Len(xs))

\* a faulty mean, over the records without a latency too
AvgLatencyOfAll(outs, model_id) ==
    LET relevant == SelectSeq(outs, LAMBDA o : o.model_id = model_id) IN
    IF relevant = <<>> THEN 2000
    ELSE SumLatency(relevant) \div Len(relevant)

\* ModelRouter.get_avg_latency: int() truncates the quotient
get_avg_latency(outs, model_id) ==
    LET relevant == SelectSeq(outs, LAMBDA o : o.model_id = model_id /\ o.latency_ms > 0) IN
    IF relevant = <<>> THEN 2000
    ELSE SumLatency(relevant) \div Len(relevant)

\* ModelRouter.get_stats: for each model of the log its records, its rate
\* of successes and the truncated mean of its latencies over 0, 0 without one
get_stats(outs) ==
    [mid \in {outs[i].model_id : i \in 1..Len(outs)} |->
        LET all == SelectSeq(outs, LAMBDA o : o.model_id = mid)
            latencies == SelectSeq(all, LAMBDA o : o.latency_ms > 0)
        IN [total |-> Len(all),
            success_rate |-> Frac(Len(SelectSeq(all, LAMBDA o : o.outcome = "success")),
                                  Max(Len(all), 1)),
            avg_latency_ms |-> SumLatency(latencies) \div Max(Len(latencies), 1)]]

\* -------------------------------------------------------- the signature

Chars(s) == {SubSeq(s, i, i) : i \in 1..Len(s)}

Digits == Chars("0123456789")

\* the characters \w matches; "~" and "^" are halves of a Cyrillic letter
WordChars ==
    Chars("abcdefghijklmnopqrstuvwxyzABCDEFGHIJKLMNOPQRSTUVWXYZ_~^") \cup Digits

\* the first and the last index of the run of characters of cs that holds i
RunStart(s, cs, i) ==
    CHOOSE a \in 1..i :
        /\ \A j \in a..i : At(s, j) \in cs
        /\ At(s, a - 1) \notin cs

RunEnd(s, cs, i) ==
    CHOOSE e \in i..Len(s) :
        /\ \A j \in i..e : At(s, j) \in cs
        /\ At(s, e + 1) \notin cs

FileExtensions == {"py", "js", "ts", "tsx", "sh", "md", "json", "yaml", "yml"}

\* \b\w+\.(py|js|ts|tsx|sh|md|json|yaml|yml)\b can match from i: a whole run
\* of word characters starts at i, then a dot, then a whole run that is one
\* of the extensions
FileCandidate(s, i) ==
    /\ At(s, i) \in WordChars
    /\ At(s, i - 1) \notin WordChars
    /\ LET e == RunEnd(s, WordChars, i) IN
       /\ At(s, e + 1) = "."
       /\ At(s, e + 2) \in WordChars
       /\ SubSeq(s, e + 2, RunEnd(s, WordChars, e + 2)) \in FileExtensions

\* re.sub scans from the left and its matches do not overlap: the candidate
\* at i is replaced unless its first run is the extension of a replaced one
RECURSIVE FileMatch(_, _)
FileMatch(s, i) ==
    /\ FileCandidate(s, i)
    /\ ~(/\ At(s, i - 1) = "."
         /\ At(s, i - 2) \in WordChars
         /\ FileMatch(s, RunStart(s, WordChars, i - 2)))

\* a faulty substitution, which leaves the name of a file as it is
FileSubAtKept(s, i) == At(s, i)

\* what re.sub(r"\b\w+\.(py|...)\b", r"FILE.\1", s) puts for the character at
\* i: FILE for the first run of a match, the dot and the extension as they are
FileSubAt(s, i) ==
    IF At(s, i) \in WordChars /\ FileMatch(s, RunStart(s, WordChars, i))
    THEN (IF At(s, i - 1) \in WordChars THEN "" ELSE "FILE")
    ELSE At(s, i)

SubFiles(s) == ConcatMap(LAMBDA i : FileSubAt(s, i), 1, Len(s))

\* re.sub(r"\d+", "N", s): a run of digits becomes one N
SubDigits(s) ==
    ConcatMap(LAMBDA i : IF At(s, i) \in Digits
                         THEN (IF At(s, i - 1) \in Digits THEN "" ELSE "N")
                         ELSE At(s, i),
              1, Len(s))

\* " ".join(s.split()): a run of whitespace between two words becomes one
\* space, one at either end goes
JoinWords(s) ==
    ConcatMap(LAMBDA i : IF ~IsSpace(At(s, i)) THEN At(s, i)
                         ELSE IF /\ i > 1 /\ ~IsSpace(At(s, i - 1))
                                 /\ \E j \in (i + 1)..Len(s) : ~IsSpace(At(s, j))
                              THEN " " ELSE "",
              1, Len(s))

\* a faulty normalisation, which leaves the digits as they are
NormalizeKeepDigits(task) == JoinWords(SubFiles(Lower(task)))

\* the normalisation of _compute_signature
Normalize(task) == JoinWords(SubDigits(SubFiles(Lower(task))))

\* the characters of a text, in a fixed order: a character's code is its index
CodeTable ==
    "\n\t\r !\"#$%&'()*+,-./0123456789:;<=>?@ABCDEFGHIJKLMNOPQRSTUVWXYZ[\\]^_abcdefghijklmnopqrstuvwxyz{|}~"

CharCode(c) ==
    IF c \in Chars(CodeTable)
    THEN CHOOSE i \in 1..Len(CodeTable) : SubSeq(CodeTable, i, i) = c
    ELSE 0

\* <<the polynomial digest of s[lo..hi] modulo 4096, mult^(hi - lo + 1)>>,
\* by halves
RECURSIVE PolyHash(_, _, _, _)
PolyHash(s, mult, lo, hi) ==
    IF lo > hi THEN <<0, 1>>
    ELSE IF lo = hi THEN <<CharCode(At(s, lo)) % 4096, mult % 4096>>
    ELSE LET mid == (lo + hi) \div 2
             l == PolyHash(s, mult, lo, mid)
             r == PolyHash(s, mult, mid + 1, hi)
         IN <<(l[1] * r[2] + r[1]) % 4096, (l[2] * r[2]) % 4096>>

\* n as k lower-case hexadecimal digits
RECURSIVE Hex(_, _)
Hex(n, k) ==
    IF k = 0 THEN ""
    ELSE Hex(n \div 16, k - 1) \o SubSeq("0123456789abcdef", (n % 16) + 1, (n % 16) + 1)

\* hashlib.md5(s.encode()).hexdigest()[:12].  MD5 is the library's; four
\* 12-bit polynomial digests of the text stand for its first 48 bits.
Md5Hex12(s) ==
    Hex(PolyHash(s, 31, 1, Len(s))[1], 3) \o Hex(PolyHash(s, 127, 1, Len(s))[1], 3)
    \o Hex(PolyHash(s, 257, 1, Len(s))[1], 3) \o Hex(PolyHash(s, 1031, 1, Len(s))[1], 3)

\* ModelRouter._compute_signature
ComputeSignature(task) == Md5Hex12(Normalize(task))

\* Python: s[:n], counting a Cyrillic letter (two characters here) once: the
\* characters up to the end of the n-th letter
Prefix(s, n) ==
    LET letters(e) == Cardinality({j \in 1..e : At(s, j - 1) \notin {"~", "^"}})
        ends == {e \in 0..Len(s) : letters(e) <= n /\ At(s, e) \notin {"~", "^"}}
    IN SubSeq(s, 1, CHOOSE e \in ends : \A x \in ends : x <= e)

PREVIEW_LEN == 100

\* ------------------------------------------------------------ the scorer

\* a faulty sum, which adds the modifier of a low-complexity keyword too
KeywordSumOfSizes(lower) ==
    SumMap(LAMBDA i : IF Contains(lower, COMPLEXITY_KEYWORDS[i][1])
                      THEN Max(COMPLEXITY_KEYWORDS[i][2], 0 - COMPLEXITY_KEYWORDS[i][2])
                      ELSE 0,
           1, Len(COMPLEXITY_KEYWORDS))

\* the modifiers of the keywords that occur in the lower-cased task
KeywordSum(lower) ==
    SumMap(LAMBDA i : IF Contains(lower, COMPLEXITY_KEYWORDS[i][1])
                      THEN COMPLEXITY_KEYWORDS[i][2] ELSE 0,
           1, Len(COMPLEXITY_KEYWORDS))

\* the score of _score_task before the learning adjustment
RunningScore(task, task_type) ==
    LET base == IF task_type \in DOMAIN BASE_SCORES THEN BASE_SCORES[task_type] ELSE 40
        word_count == WordCount(task)
        bullet_count == Count(task, "- ") + Count(task, "* ") + Count(task, "\n")
    IN base
       + KeywordSum(Lower(task))
       + (IF word_count > 50 THEN 10 ELSE IF word_count < 10 THEN -5 ELSE 0)
       + (IF Contains(task, "@@@") THEN 8 ELSE 0)
       + (IF bullet_count > 5 THEN 10 ELSE 0)

\* ----------------------------------------------------- the tasks called

\* a task that holds every keyword of positive weight
EveryPositive ==
    "architect design system security audit refactor entire performance "
    \o "optimization rewrite migrate integrate complex analyze debug implement "
    \o "add feature create build fix bug update ~a~r~h~i~t~e~k~t~u~r "
    \o "~s~p~r~o~e~k~t~i~r ~b~e~z~o~p~a~s~n~o~s~t ~r~e~f~a~k~t~o~r "
    \o "~o~p~t~i~m~i~z~i~r ~m~i~g~r~i~r ~i~n~t~e~g~r~i~r ~s~l~o~j~n "
    \o "~k~o~m~p~l~e~k~s~n ~a~n~a~l~i~z ~o~t~l~a~d~k ~r~e~a~l~i~z ~s~o~z~d~a~y "
    \o "~p~o~d~b~o~r~k ~n~a~p~i~w~i ~s~t~a~t^m^u ~s~o~z~d~a~y ~n~a~p~i~w~i "
    \o "~i~s~p~r~a~v ~o~b~n~o~v ~g~l~u~b~o~k~i~y ~a~n~a~l~i~z ~t~e~h~n~i~q~e~s~k "
    \o "~d~e~l~e~g~i~r~u~y ~o~r~k~e~s~t~r~i~r~u~y ~r~a~s~p~a~r~a~l~l~e~l^m "
    \o "~p~a~r~s ~s~p~a~r~s seo ~p~e~r~e~v~e~d"

\* a task that holds every keyword of negative weight
EveryNegative ==
    "format rename typo comment simple quick trivial lint "
    \o "~o~p~e~q~a~t~k ~p~r~o~s~t~o~y ~b^y~s~t~r~o ~m~e~l~k"

\* the long task of test_score_clamped: one phrase, three times
ClampPhrase ==
    "Design architect system design complex critical production security "
    \o "audit migrate refactor entire "

\* the tasks route() is called with
Tasks ==
    {"",
     "hi",
     "Fix this typo",
     "Search for the latest news about OpenAI",
     "Research how to migrate and refactor the entire system architecture",
     "Design system architecture for microservices",
     EveryPositive,
     EveryNegative,
     ClampPhrase \o ClampPhrase \o ClampPhrase}

\* the tasks record_outcome() is called with
RecordTasks == {"Fix bug #12 in app.py"}

\* the tasks of the outcome files of earlier runs
HistoryTasks == {"summarize q3.md", "Fix this typo"}

\* tasks around the upper bound of the free band: their running scores
\* are 22, 25 and 30
BandTasks == {"add a comment", "quick rewrite", "hi"}

\* tasks that differ in digit runs, in the name of a file with a listed
\* extension, in letter case or in whitespace runs, one class of them in
\* each set
SameTasks ==
    { {"Fix bug #123 in file.py", "Fix bug #456 in file.py", "fix bug #7 in main.py",
       "FIX BUG #123 IN FILE.PY", "  Fix bug   #123\tin\nfile.py "},
      {"fix a.py", "fix b.py"} }

\* tasks that differ in the extension of a file, or in the name of a file
\* whose extension is not listed
OtherTasks == {"fix a.js", "fix a.txt", "fix b.txt"}

SignatureTasks == (UNION SameTasks) \cup OtherTasks

\* <<a task classified general with no keyword, the task with one keyword
\* more, the sign of the keyword's modifier>>, for tasks of 1, 9 and 50 words
KeywordPairs ==
    LET nine == "go go go go go go go go go"
        fifty == "go go go go go go go go go go "
                 \o "go go go go go go go go go go "
                 \o "go go go go go go go go go go "
                 \o "go go go go go go go go go go "
                 \o "go go go go go go go go go go"
    IN { <<"hi", "hi debug", 1>>, <<"hi", "hi comment", -1>>,
         <<nine, nine \o " debug", 1>>, <<nine, nine \o " comment", -1>>,
         <<fifty, fifty \o " debug", 1>>, <<fifty, fifty \o " comment", -1>> }

\* tasks that map to the free, the cheap, the standard, the premium and the
\* research tier
EscalationTasks ==
    {"Fix this typo",
     "hi",
     "implement a function",
     "Design system architecture for microservices",
     "Search for the latest news about OpenAI"}

AllTasks ==
    Tasks \cup RecordTasks \cup HistoryTasks \cup BandTasks \cup SignatureTasks
    \cup {p[1] : p \in KeywordPairs} \cup {p[2] : p \in KeywordPairs}
    \cup EscalationTasks

\* _detect_task_type, the running score of _score_task, _compute_signature
\* and task[:100], worked out once for each task of the model
TaskMemo ==
    [t \in AllTasks |->
        [task_type |-> DetectTaskType(t),
         running |-> RunningScore(t, DetectTaskType(t)),
         signature |-> ComputeSignature(t),
         preview |-> Prefix(t, PREVIEW_LEN)]]

\* ------------------------------------------------- the scorer, continued

\* the learning loop of _score_task: the first free-tier model with a
\* success rate under 0.5 bumps a score under the free band's upper bound
Learned(score, reg, outs) ==
    IF /\ \E i \in 1..Len(list_by_tier(reg, "free")) :
              FracLess(get_success_rate(outs, list_by_tier(reg, "free")[i].id), <<1, 2>>)
       /\ score < Threshold("free")[2]
    THEN Threshold("cheap")[1] + 5
    ELSE score

\* a faulty clamp, with the upper bound only
ClampAbove(score) == Min(95, score)

\* the clamp that ends _score_task
Clamp(score) == Max(5, Min(95, score))

\* ModelRouter._score_task
ScoreTask(task, task_type, reg, outs) ==
    Clamp(Learned(IF task \in AllTasks /\ task_type = TaskMemo[task].task_type
                  THEN TaskMemo[task].running
                  ELSE RunningScore(task, task_type),
                  reg, outs))

\* a faulty tier mapper, which maps a research task by its score
ScoreToTierByScore(score, is_research) ==
    IF score <= 25 THEN "free"
    ELSE IF score <= 50 THEN "cheap"
    ELSE IF score <= 75 THEN "standard"
    ELSE "premium"

\* a faulty tier mapper, which leaves the bounds of a band out of it
ScoreToTierStrict(score, is_research) ==
    IF is_research THEN "research"
    ELSE IF \E i \in 1..Len(TIER_THRESHOLDS) :
                TIER_THRESHOLDS[i][2] < score /\ score < TIER_THRESHOLDS[i][3]
         THEN TIER_THRESHOLDS[CHOOSE i \in 1..Len(TIER_THRESHOLDS) :
                        TIER_THRESHOLDS[i][2] < score /\ score < TIER_THRESHOLDS[i][3]][1]
         ELSE IF score > 85 THEN "premium" ELSE "free"

\* ModelRouter._score_to_tier
ScoreToTier(score, is_research) ==
    IF is_research THEN "research"
    ELSE IF \E i \in 1..Len(TIER_THRESHOLDS) :
                TIER_THRESHOLDS[i][2] <= score /\ score <= TIER_THRESHOLDS[i][3]
         THEN LET i == CHOOSE i \in 1..Len(TIER_THRESHOLDS) :
                        /\ TIER_THRESHOLDS[i][2] <= score /\ score <= TIER_THRESHOLDS[i][3]
                        /\ \A j \in 1..(i - 1) :
                              ~(TIER_THRESHOLDS[j][2] <= score /\ score <= TIER_THRESHOLDS[j][3])
              IN TIER_THRESHOLDS[i][1]
         ELSE IF score > 85 THEN "premium" ELSE "free"

\* ---------------------------------------------------- the model selector

\* the composite before its clamp, over the denominator 200 * n where the
\* success rate is s / n:
\*   priority * 0.4 + rate * 100 * 0.3 + speed * 4 - min(30, avg_latency / 200)
RawComposite(model, outs) ==
    LET rate == get_success_rate(outs, model.id)
        n == rate[2]
        avg_latency == get_avg_latency(outs, model.id)
    IN << 80 * n * model.priority + 6000 * rate[1] + 800 * n * model.speed
          - Min(6000 * n, n * avg_latency),
          200 * n >>

\* ModelRouter._composite_score: max(0, min(100, composite))
CompositeScore(model, outs) ==
    LET raw == RawComposite(model, outs) IN
    Frac(Max(0, Min(100 * raw[2], raw[1])), raw[2])

\* list.sort(key=..., reverse=True): stable, descending.  Insert x after the
\* entries that are not smaller.
RECURSIVE InsertDesc(_, _)
InsertDesc(sorted, x) ==
    IF sorted = <<>> THEN <<x>>
    ELSE IF FracLess(Head(sorted)[2], x[2]) THEN <<x>> \o sorted
    ELSE <<Head(sorted)>> \o InsertDesc(Tail(sorted), x)

RECURSIVE SortDesc(_, _)
SortDesc(done, todo) ==
    IF todo = <<>> THEN done ELSE SortDesc(InsertDesc(done, Head(todo)), Tail(todo))

\* the truth value of self._available_providers: None and set() are false
ProvidersSet(cfg) == cfg.available_providers # Nothing /\ cfg.available_providers[1] # {}

\* faulty candidates, through the provider filter alone
CandidatesOfAnyCapability(cfg, reg, tier, capability) ==
    IF ProvidersSet(cfg)
    THEN SelectSeq(list_by_tier(reg, tier), LAMBDA c : c.provider \in cfg.available_providers[1])
    ELSE list_by_tier(reg, tier)

\* the candidates of _select_model: the tier's models through both filters
Candidates(cfg, reg, tier, capability) ==
    LET byCap == IF capability # None
                 THEN SelectSeq(list_by_tier(reg, tier), LAMBDA c : capability \in c.capabilities)
                 ELSE list_by_tier(reg, tier)
    IN IF ProvidersSet(cfg)
       THEN SelectSeq(byCap, LAMBDA c : c.provider \in cfg.available_providers[1])
       ELSE byCap

\* a faulty selection, which forgets prefer_free
SelectModelTop(cfg, reg, outs, tier, capability) ==
    LET candidates == Candidates(cfg, reg, tier, capability) IN
    IF candidates = <<>> THEN Nothing
    ELSE Some(SortDesc(<<>>, MapSeq(LAMBDA c : <<c, CompositeScore(c, outs)>>,
                                    candidates))[1][1])

\* ModelRouter._select_model: Nothing or Some(model)
SelectModel(cfg, reg, outs, tier, capability) ==
    LET candidates == Candidates(cfg, reg, tier, capability) IN
    IF candidates = <<>> THEN Nothing
    ELSE LET scored == SortDesc(<<>>, MapSeq(LAMBDA c : <<c, CompositeScore(c, outs)>>, candidates))
             free_candidates == SelectSeq(scored, LAMBDA x : is_free(x[1]))
         IN IF cfg.prefer_free /\ free_candidates # <<>>
            THEN Some(free_candidates[1][1])
            ELSE Some(scored[1][1])

\* ---------------------------------------------------- the fallback builder

\* _add_candidates of _build_fallbacks: seen is the primary's id and the ids
\* of the fallbacks so far
RECURSIVE AddCandidates(_, _, _, _, _)
AddCandidates(cfg, primary, capability, fallbacks, candidates) ==
    IF candidates = <<>> THEN fallbacks
    ELSE LET c == Head(candidates)
             seen == {primary.id} \cup {fallbacks[i].id : i \in 1..Len(fallbacks)}
             take == /\ c.id \notin seen
                     /\ (capability = None \/ capability \in c.capabilities)
                     /\ (~ProvidersSet(cfg) \/ c.provider \in cfg.available_providers[1])
         IN AddCandidates(cfg, primary, capability,
                          IF take THEN Append(fallbacks, c) ELSE fallbacks,
                          Tail(candidates))

tier_order == <<"free", "cheap", "standard", "premium">>

RECURSIVE AddHigher(_, _, _, _, _, _)
AddHigher(cfg, reg, primary, capability, fallbacks, i) ==
    IF i > Len(tier_order) THEN fallbacks
    ELSE AddHigher(cfg, reg, primary, capability,
                   AddCandidates(cfg, primary, capability, fallbacks,
                                 list_by_tier(reg, tier_order[i])),
                   i + 1)

\* a faulty slice, which cuts nothing
TakeAll(xs, n) == xs

\* Python: xs[:n]
Take(xs, n) == SubSeq(xs, 1, Min(n, Len(xs)))

\* a faulty _build_fallbacks, which goes through tier_order from its start
BuildFallbacksFromFree(cfg, reg, tier, primary, capability) ==
    LET same == AddCandidates(cfg, primary, capability, <<>>, list_by_tier(reg, tier))
    IN Take(AddHigher(cfg, reg, primary, capability, same, 1), 4)

\* ModelRouter._build_fallbacks
BuildFallbacks(cfg, reg, tier, primary, capability) ==
    LET same == AddCandidates(cfg, primary, capability, <<>>, list_by_tier(reg, tier))
        all == IF \E i \in 1..Len(tier_order) : tier_order[i] = tier
               THEN LET idx == CHOOSE i \in 1..Len(tier_order) : tier_order[i] = tier
                    IN AddHigher(cfg, reg, primary, capability, same, idx + 1)
               ELSE same
    IN Take(all, 4)

\* --------------------------------------------------------------- route()

\* a faulty escalation order, without the free tier
escalation_order_paid == <<"cheap", "standard", "premium">>

\* a faulty order, which looks into the paid tiers from the top
escalation_order_descending == <<"premium", "standard", "cheap", "free">>

\* a faulty order, which looks into the free tier first
escalation_order_free_first == <<"free", "cheap", "standard", "premium">>

escalation_order == <<"cheap", "standard", "premium", "free">>

\* a faulty escalation loop, which takes the model of the tier it reaches
\* and forgets to change the tier
RECURSIVE EscalateKeepsTier(_, _, _, _, _, _)
EscalateKeepsTier(cfg, reg, outs, tier, capability, i) ==
    IF i > Len(escalation_order) THEN <<tier, Nothing>>
    ELSE LET fallback_tier == escalation_order[i]
             model == IF fallback_tier # tier
                      THEN SelectModel(cfg, reg, outs, fallback_tier, capability)
                      ELSE Nothing
         IN IF model # Nothing THEN <<tier, model>>
            ELSE EscalateKeepsTier(cfg, reg, outs, tier, capability, i + 1)

\* the escalation loop of route(): the first tier of the order, other than
\* the tier tried, whose selection is a model; <<tier, Some(model)>> or
\* <<tier, Nothing>> with the tier unchanged
RECURSIVE Escalate(_, _, _, _, _, _)
Escalate(cfg, reg, outs, tier, capability, i) ==
    IF i > Len(escalation_order) THEN <<tier, Nothing>>
    ELSE LET fallback_tier == escalation_order[i]
             model == IF fallback_tier # tier
                      THEN SelectModel(cfg, reg, outs, fallback_tier, capability)
                      ELSE Nothing
         IN IF model # Nothing THEN <<fallback_tier, model>>
            ELSE Escalate(cfg, reg, outs, tier, capability, i + 1)

\* ModelRouter._build_reasoning, as its parts; the rating part is there when
\* the composite is not 50
BuildReasoning(task_type, score, tier, model, composite) ==
    [type |-> task_type,
     base |-> IF task_type \in DOMAIN BASE_SCORES THEN BASE_SCORES[task_type] ELSE 40,
     tier |-> tier, score |-> score, model |-> model.id,
     rating |-> IF composite # <<50, 1>> THEN Some(composite) ELSE Nothing]

RouterError == [kind |-> "RouterError"]

\* the value of a set of one element: a value worked out once and named
Only(S) == CHOOSE x \in S : TRUE

\* route(): the tier and model after the first selection and the escalation
\* loop; <<tier, Some(model)>>, or <<tier, Nothing>> when no tier has a model
SelectOrEscalate(cfg, reg, outs, tier0, required_capability) ==
    Only({IF first # Nothing THEN <<tier0, first>>
          ELSE Escalate(cfg, reg, outs, tier0, required_capability, 1) :
          first \in {SelectModel(cfg, reg, outs, tier0, required_capability)}})

\* route(), from the model found on: RouterError raised, or the RouteResult
RouteFound(cfg, reg, outs, task_type, signature, score, found, required_capability) ==
    IF found[2] = Nothing THEN RouterError
    ELSE Only({[kind |-> "RouteResult",
                model |-> found[2][1],
                tier |-> found[1],
                score |-> score,
                reason |-> BuildReasoning(task_type, score, found[1], found[2][1], composite),
                signature |-> signature,
                task_type |-> task_type,
                fallbacks |-> fallbacks,
                composite_score |-> composite,
                alternatives |-> MapSeq(LAMBDA f : f.id, Take(fallbacks, 3))] :
               fallbacks \in {BuildFallbacks(cfg, reg, found[1], found[2][1],
                                             required_capability)},
               composite \in {CompositeScore(found[2][1], outs)}})

\* ModelRouter.route: a RouteResult, or RouterError raised
RouteCall(cfg, reg, outs, task, required_capability) ==
    Only({Only({Only({RouteFound(cfg, reg, outs, TaskMemo[task].task_type,
                                 TaskMemo[task].signature, score, found,
                                 required_capability) :
                      found \in {SelectOrEscalate(cfg, reg, outs, tier0,
                                                  required_capability)}}) :
                tier0 \in {ScoreToTier(score, TaskMemo[task].task_type = "research")}}) :
          score \in {ScoreTask(task, TaskMemo[task].task_type, reg, outs)}})

\* ------------------------------------------------------- the outcome log

LOG_LIMIT == 1000
LOG_KEEP == 500

\* Python: xs[-n:]
LastN(xs, n) == IF Len(xs) <= n THEN xs ELSE SubSeq(xs, Len(xs) - n + 1, Len(xs))

\* a faulty trim, which keeps the oldest records: all[:500]
AppendedOldest(outs, record) ==
    LET all == Append(outs, record) IN
    IF Len(all) > LOG_LIMIT THEN SubSeq(all, 1, LOG_KEEP) ELSE all

\* the in-memory log of record_outcome after the append and the trim
Appended(outs, record) ==
    LET all == Append(outs, record) IN
    IF Len(all) > LOG_LIMIT THEN LastN(all, LOG_KEEP) ELSE all

\* the record that record_outcome builds
NewRecord(model_id, task, success, latency_ms, now) ==
    [signature |-> TaskMemo[task].signature,
     model_id |-> model_id,
     outcome |-> IF success THEN "success" ELSE "fail",
     task_preview |-> TaskMemo[task].preview,
     timestamp |-> now,
     latency_ms |-> latency_ms]

\* the outcome file: absent, or the JSON document it holds
NoFile == [exists |-> FALSE]

\* ModelRouter._save_outcomes
SavedFile(outs) ==
    [exists |-> TRUE, data |-> [version |-> 1, outcomes |-> MapSeq(RecordToDict, outs)]]

\* The outcome file is absent, or holds a JSON document whose top level is a
\* dict (data) or a list (items), or a text that json.loads rejects (text).
\* What the try block of _load_outcomes raises on it, None when it ends:
\* json.loads the JSONDecodeError, data.get on a list the AttributeError,
\* from_dict the KeyError
LoadRaises(f) ==
    IF "text" \in DOMAIN f THEN "JSONDecodeError"
    ELSE IF "items" \in DOMAIN f THEN "AttributeError"
    ELSE LET ds == Get(f.data, "outcomes", <<>>) IN
         IF \E i \in 1..Len(ds) : RecordFromDictRaises(ds[i]) THEN "KeyError" ELSE None

\* a faulty handler: except KeyError
CaughtKeyError(e) == e = "KeyError"

\* except Exception: the exceptions of the try block are all subclasses of it
Caught(e) == e \in {"JSONDecodeError", "AttributeError", "KeyError"}

\* what ModelRouter(...) raises on the outcome file, NoResult when it returns
Constructed(f) ==
    IF ~f.exists THEN [kind |-> "None"]
    ELSE LET e == LoadRaises(f) IN
         IF e = None \/ Caught(e) THEN [kind |-> "None"] ELSE [kind |-> e]

\* ModelRouter._load_outcomes: the log after construction
LoadOutcomes(f) ==
    IF ~f.exists \/ LoadRaises(f) # None THEN <<>>
    ELSE MapSeq(RecordFromDict, Get(f.data, "outcomes", <<>>))

\* ------------------------------------------------ krolik/llm/gateway.py

\* An answer of a provider to one POST is [status, body] with the body
\* "choices" (JSON with choices), "empty" (JSON without choices) or "text"
\* (not JSON), a 429 with or without a Retry-After header, or [raises] for
\* the exception that client.post raises.

\* LLMGateway._post_with_retry on the answers of the endpoint, in order:
\* what it returns or raises, and the number of its POSTs
post_with_retry(max_retries, answers) ==
    LET \* float(s) of Python accepts a decimal number (among others)
        IsFloat(s) ==
            /\ \A i \in 1..Len(s) : SubSeq(s, i, i) \in Digits \cup {"."}
            /\ \E i \in 1..Len(s) : SubSeq(s, i, i) \in Digits
            /\ Cardinality({i \in 1..Len(s) : SubSeq(s, i, i) = "."}) <= 1
        Attempt[attempt \in 0..Max(0, max_retries + 1)] ==
            IF attempt >= max_retries + 1
            THEN [kind |-> "LLMGatewayError", value |-> None, attempts |-> attempt]
            ELSE LET a == answers[attempt + 1]
                     raised(e) == [kind |-> e, value |-> None, attempts |-> attempt + 1]
                 IN IF "raises" \in DOMAIN a
                    THEN IF a.raises \in {"TimeoutException", "ConnectError"}
                         THEN Attempt[attempt + 1]
                         ELSE raised(a.raises)
                    ELSE IF a.status = 429
                    THEN IF IsFloat(Get(a, "retry_after", "2"))
                         THEN Attempt[attempt + 1]
                         ELSE raised("ValueError")
                    ELSE IF a.status >= 500 THEN Attempt[attempt + 1]
                    ELSE IF a.status \notin 200..299 THEN raised("LLMGatewayError")
                    ELSE IF a.body = "text" THEN raised("JSONDecodeError")
                    ELSE [kind |-> "dict", value |-> a.body, attempts |-> attempt + 1]
    IN Attempt[0]

\* LLMGateway.chat: _get_endpoint, _post_with_retry, _parse_response
chat(gw, provider, model, answers) ==
    IF provider \notin gw.providers
    THEN [kind |-> "LLMGatewayError", value |-> None, attempts |-> 0]
    ELSE LET data == post_with_retry(gw.max_retries, answers) IN
         IF data.kind # "dict" THEN data
         ELSE IF data.value = "empty" THEN [data EXCEPT !.kind = "LLMGatewayError", !.value = None]
         ELSE [data EXCEPT !.kind = "GatewayResponse",
                           !.value = [provider |-> provider, model |-> model]]

\* a faulty chat_with_fallbacks, which gives up after the first pair it tries
ChatWithFirstOnly(gw, fallback_chain, answers) ==
    LET tried == {k \in 1..Len(fallback_chain) : fallback_chain[k][1] \in gw.providers} IN
    IF tried = {} THEN [kind |-> "LLMGatewayError", value |-> None, posts |-> <<>>]
    ELSE LET k == CHOOSE k \in tried : \A j \in tried : k <= j
             r == chat(gw, fallback_chain[k][1], fallback_chain[k][2], answers[k])
         IN [kind |-> r.kind, value |-> r.value,
             posts |-> [i \in 1..r.attempts |->
                           [provider |-> fallback_chain[k][1], model |-> fallback_chain[k][2],
                            answer |-> answers[k][i]]]]

\* LLMGateway.chat_with_fallbacks, answers[k] being the answers to the POSTs
\* for the pair fallback_chain[k]: what it returns or raises, and its POSTs
\* in order
chat_with_fallbacks(gw, fallback_chain, answers) ==
    LET From[k \in 1..(Len(fallback_chain) + 1)] ==
            IF k > Len(fallback_chain)
            THEN [kind |-> "LLMGatewayError", value |-> None, posts |-> <<>>]
            ELSE LET provider == fallback_chain[k][1]
                     model == fallback_chain[k][2]
                     r == chat(gw, provider, model, answers[k])
                     sent == [i \in 1..r.attempts |->
                                 [provider |-> provider, model |-> model,
                                  answer |-> answers[k][i]]]
                 IN IF provider \notin gw.providers THEN From[k + 1]
                    ELSE IF r.kind = "LLMGatewayError"
                    THEN [From[k + 1] EXCEPT !.posts = sent \o @]
                    ELSE [kind |-> r.kind, value |-> r.value, posts |-> sent]
    IN From[1]

\* ------------------------------------------------------------ the inputs

\* What ~/.krolik/models.json can hold: entries that discover() saved, an
\* entry of an older file with neither tier nor provider, and entries that
\* from_dict rejects
FullCache ==
    << [id |-> "openrouter/meta-llama/llama-3.1-8b-instruct", provider |-> "openrouter",
        tier |-> "cheap", cost_per_1m_input |-> 20, cost_per_1m_output |-> 30,
        priority |-> 75, speed |-> 3, capabilities |-> {"chat", "code", "reasoning"},
        aliases |-> <<>>, status |-> "active"],
       [id |-> "mistralai/mistral-small"],
       [id |-> "openrouter/cohere/command-r-08", provider |-> "openrouter",
        tier |-> "premium", cost_per_1m_input |-> 10000, cost_per_1m_output |-> 30000,
        priority |-> 50, speed |-> 2, capabilities |-> {"chat", "code"},
        aliases |-> <<>>, status |-> "active"],
       [id |-> "openrouter/ai21/jamba-large", provider |-> "openrouter",
        tier |-> "premium", cost_per_1m_input |-> 8000, cost_per_1m_output |-> 24000,
        priority |-> 55, speed |-> 2, capabilities |-> {"chat", "code"},
        aliases |-> <<>>, status |-> "active"],
       [id |-> "openrouter/qwen/qwen-2.5-7b-promo", provider |-> "openrouter",
        tier |-> "free", cost_per_1m_input |-> 0, cost_per_1m_output |-> 100,
        priority |-> 85, speed |-> 5, capabilities |-> {"chat", "code"},
        aliases |-> <<"Qwen">>, status |-> "active"],
       [provider |-> "openrouter", tier |-> "cheap"],
       [id |-> "openrouter/x/y", tier |-> "budget"] >>

\* a cache file that switches the free defaults off
DisablingCache ==
    << [id |-> "cliproxy/gemini-2.5-flash", status |-> "disabled"],
       [id |-> "cliproxy/claude-sonnet-4-5", status |-> "disabled"] >>

CacheFiles == {Nothing, Some(FullCache), Some(DisablingCache)}

ProviderSets ==
    {Nothing, Some({}), Some({"cliproxy"}), Some({"openrouter"}), Some({"ollama"})}

\* an outcome file left by an earlier run
HistoryFile ==
    SavedFile(<< NewRecord("openrouter/cohere/command-r-08", "summarize q3.md", FALSE, 7000, 1),
                 NewRecord("openrouter/ai21/jamba-large", "summarize q3.md", FALSE, 6400, 2),
                 NewRecord("cliproxy/gemini-2.5-flash", "Fix this typo", TRUE, 300, 3) >>)

OutcomeFiles == {NoFile, HistoryFile}

RouteCapabilities == {None, "code", "search"}

\* the models record_outcome() is called with: one of the catalog, one not
RecordModels == {"cliproxy/gemini-2.5-flash"}
LogModels == {"cliproxy/gemini-2.5-flash", "test/model"}

\* the models get_success_rate() is asked about
RateModels == LogModels \cup {"never/called"}

Latencies == {0, 9000}

\* the record_outcome calls of a run of the router, and of a run on the log
MaxCalls == 1
MaxLogCalls == 2

\* time.time() at the first call: later than every timestamp on file
StartTime == LOG_LIMIT + 1

\* the log of n outcomes that earlier runs recorded
LongLog(n) ==
    [i \in 1..n |->
        NewRecord(IF i % 3 = 0 THEN "test/model" ELSE "cliproxy/gemini-2.5-flash",
                  IF i % 2 = 0 THEN "summarize q3.md" ELSE "Fix this typo",
                  i % 4 # 1, (i % 5) * 100, i)]

\* an outcome file with an entry that OutcomeRecord.from_dict rejects
BrokenFile ==
    [exists |-> TRUE,
     data |-> [version |-> 1,
               outcomes |-> << RecordToDict(NewRecord("test/model", "Fix this typo", TRUE, 300, 1)),
                               [model |-> "test/model", outcome |-> "fail"] >>]]

\* an outcome file cut short while it was written, and one whose top
\* level is the list of the records
CutFile == [exists |-> TRUE, text |-> "{\"version\": 1, \"outcomes\": ["]

ListFile ==
    [exists |-> TRUE,
     items |-> << RecordToDict(NewRecord("cliproxy/gemini-2.5-flash", "Fix this typo", FALSE, 300, 1)) >>]

\* the outcome files that do not load
LostFiles == {NoFile, BrokenFile, CutFile, ListFile}

\* the outcome files of the runs on the log: up to a full log
LogFiles ==
    {NoFile, HistoryFile, BrokenFile,
     SavedFile(LongLog(LOG_LIMIT - 1)), SavedFile(LongLog(LOG_LIMIT))}

\* ------------------------------------------------------ the state machine

VARIABLES
    MODELS,     \* the registry: [by_id |-> the specs of _by_id in order, by_alias |-> _by_alias]
    cache_file, \* ~/.krolik/models.json: Nothing (no file) or Some("models" list of the file)
    config,     \* the router's [prefer_free, available_providers]
    outcomes,   \* the router's _outcomes
    file,       \* the outcome file at _outcomes_path
    clock,      \* time.time()
    call,       \* the last call, with its arguments
    result,     \* what the last call returned or raised
    gateway,    \* the gateway: [providers |-> the names of _providers, max_retries |-> _max_retries]
    posts,      \* the POSTs of the last gateway call, in order: the provider and model of each
    peer,       \* the _outcomes of a second router on the same outcome file, Nothing without one
    pc          \* where router 1 and router 2 are in record_outcome: "idle", "save" (before write_text) or "write" (the file is open)

vars == <<MODELS, cache_file, config, outcomes, file, clock, call, result, gateway, posts, peer, pc>>

NoResult == [kind |-> "None"]

\* the import of krolik.llm.models, then ModelRouter(...)
Init ==
    /\ \E cache \in CacheFiles : cache_file = cache /\ MODELS = RegistryInit(cache)
    /\ \E pf \in BOOLEAN, ap \in ProviderSets :
          config = [prefer_free |-> pf, available_providers |-> ap]
    /\ \E f \in OutcomeFiles : file = f /\ outcomes = LoadOutcomes(f)
    /\ clock = StartTime
    /\ gateway = [providers |-> {}, max_retries |-> 2]
    /\ posts = <<>>
    /\ peer = Nothing
    /\ pc = <<"idle", "idle">>
    /\ call = [op |-> "__init__"]
    /\ result = NoResult

\* the import of krolik.llm.models, then ModelRouter(outcomes_path=...) on
\* an outcome file of any length
InitLog ==
    /\ cache_file = Nothing
    /\ MODELS = RegistryInit(Nothing)
    /\ config = [prefer_free |-> TRUE, available_providers |-> Nothing]
    /\ \E f \in LogFiles : file = f /\ outcomes = LoadOutcomes(f)
    /\ clock = StartTime
    /\ gateway = [providers |-> {}, max_retries |-> 2]
    /\ posts = <<>>
    /\ peer = Nothing
    /\ pc = <<"idle", "idle">>
    /\ call = [op |-> "__init__"]
    /\ result = NoResult

\* a faulty route, which records the call in the log
RouteRecording(task, capability) ==
    /\ call' = [op |-> "route", task |-> task, required_capability |-> capability]
    /\ result' = RouteCall(config, MODELS, outcomes, task, capability)
    /\ outcomes' = Appended(outcomes, NewRecord("cliproxy/gemini-2.5-flash", task, FALSE, 0, clock))
    /\ UNCHANGED <<cache_file, gateway, posts, pc, peer, MODELS, config, file, clock>>

\* router.route(task, required_capability)
Route(task, capability) ==
    /\ call' = [op |-> "route", task |-> task, required_capability |-> capability]
    /\ result' = RouteCall(config, MODELS, outcomes, task, capability)
    /\ UNCHANGED <<cache_file, gateway, posts, pc, peer, MODELS, config, outcomes, file, clock>>

\* router.record_outcome(model_id, task, success, latency_ms)
RecordOutcome(model_id, task, success, latency_ms) ==
    /\ outcomes' = Appended(outcomes, NewRecord(model_id, task, success, latency_ms, clock))
    /\ file' = SavedFile(outcomes')
    /\ clock' = clock + 1
    /\ call' = [op |-> "record_outcome", model_id |-> model_id, task |-> task,
                success |-> success, latency_ms |-> latency_ms]
    /\ result' = NoResult
    /\ UNCHANGED <<cache_file, gateway, posts, pc, peer, MODELS, config>>

\* router.get_success_rate(model_id)
GetSuccessRate(model_id) ==
    /\ call' = [op |-> "get_success_rate", model_id |-> model_id]
    /\ result' = [kind |-> "float", value |-> get_success_rate(outcomes, model_id)]
    /\ UNCHANGED <<cache_file, gateway, posts, pc, peer, MODELS, config, outcomes, file, clock>>

\* a faulty record_outcome, which drops the record when the save fails
RecordOutcomeRolledBack(model_id, task, success, latency_ms) ==
    /\ clock' = clock + 1
    /\ call' = [op |-> "record_outcome", model_id |-> model_id, task |-> task,
                success |-> success, latency_ms |-> latency_ms]
    /\ result' = [kind |-> "OSError"]
    /\ UNCHANGED <<cache_file, gateway, posts, pc, peer, MODELS, config, outcomes, file>>

\* router.record_outcome(model_id, task, success, latency_ms) when
\* _save_outcomes raises: the record is in the log by then, the exception goes
\* to the caller; the file is as it was when mkdir or the opening failed, cut
\* short when the writing failed
RecordOutcomeSaveFails(model_id, task, success, latency_ms) ==
    /\ outcomes' = Appended(outcomes, NewRecord(model_id, task, success, latency_ms, clock))
    /\ file' \in {file, CutFile}
    /\ clock' = clock + 1
    /\ call' = [op |-> "record_outcome", model_id |-> model_id, task |-> task,
                success |-> success, latency_ms |-> latency_ms]
    /\ result' = [kind |-> "OSError"]
    /\ UNCHANGED <<cache_file, gateway, posts, pc, peer, MODELS, config>>

\* router.get_avg_latency(model_id)
GetAvgLatency(model_id) ==
    /\ call' = [op |-> "get_avg_latency", model_id |-> model_id]
    /\ result' = [kind |-> "int", value |-> get_avg_latency(outcomes, model_id)]
    /\ UNCHANGED <<cache_file, gateway, posts, pc, peer, MODELS, config, outcomes, file, clock>>

\* router.get_stats()
GetStats ==
    /\ call' = [op |-> "get_stats"]
    /\ result' = [kind |-> "dict", value |-> get_stats(outcomes)]
    /\ UNCHANGED <<cache_file, gateway, posts, pc, peer, MODELS, config, outcomes, file, clock>>

\* a fresh ModelRouter on the same path, with the same settings
NewRouter ==
    /\ outcomes' = LoadOutcomes(file)
    /\ call' = [op |-> "__init__"]
    /\ result' = Constructed(file)
    /\ UNCHANGED <<cache_file, gateway, posts, pc, peer, MODELS, config, file, clock>>

\* the calls on a router; its record_outcome calls come with a latency
Next ==
    \/ \E t \in Tasks, c \in RouteCapabilities : Route(t, c)
    \/ /\ clock < StartTime + MaxCalls
       /\ \E m \in RecordModels, t \in RecordTasks, s \in BOOLEAN, l \in Latencies \ {0} :
             RecordOutcome(m, t, s, l)
    \/ NewRouter

Spec == Init /\ [][Next]_vars

NextLog ==
    \/ /\ clock < StartTime + MaxLogCalls
       /\ \E m \in LogModels, t \in RecordTasks, s \in BOOLEAN, l \in Latencies :
             RecordOutcome(m, t, s, l)
    \/ \E m \in RateModels : GetSuccessRate(m)
    \/ NewRouter

SpecLog == InitLog /\ [][NextLog]_vars

\* the free-tier models record_outcome() is called with in a run on the
\* learning adjustment
FreeModels == {"cliproxy/gemini-2.5-flash", "openrouter/qwen/qwen-2.5-7b-promo"}

MaxLearnCalls == 2

\* the import of krolik.llm.models, then ModelRouter(outcomes_path=...)
InitLearn ==
    /\ \E cache \in CacheFiles : cache_file = cache /\ MODELS = RegistryInit(cache)
    /\ \E pf \in BOOLEAN : config = [prefer_free |-> pf, available_providers |-> Nothing]
    /\ \E f \in OutcomeFiles : file = f /\ outcomes = LoadOutcomes(f)
    /\ clock = StartTime
    /\ gateway = [providers |-> {}, max_retries |-> 2]
    /\ posts = <<>>
    /\ peer = Nothing
    /\ pc = <<"idle", "idle">>
    /\ call = [op |-> "__init__"]
    /\ result = NoResult

NextLearn ==
    \/ \E t \in BandTasks \cup {p[2] : p \in KeywordPairs} : Route(t, None)
    \/ /\ clock < StartTime + MaxLearnCalls
       /\ \E m \in FreeModels, t \in RecordTasks, s \in BOOLEAN :
             RecordOutcome(m, t, s, 0)

SpecLearn == InitLearn /\ [][NextLearn]_vars

\* the import of krolik.llm.models with no cache file, then
\* ModelRouter(outcomes_path=...)
InitDefault ==
    /\ cache_file = Nothing
    /\ MODELS = RegistryInit(Nothing)
    /\ config = [prefer_free |-> TRUE, available_providers |-> Nothing]
    /\ \E f \in OutcomeFiles : file = f /\ outcomes = LoadOutcomes(f)
    /\ clock = StartTime
    /\ gateway = [providers |-> {}, max_retries |-> 2]
    /\ posts = <<>>
    /\ peer = Nothing
    /\ pc = <<"idle", "idle">>
    /\ call = [op |-> "__init__"]
    /\ result = NoResult

\* the scores _score_to_tier() is called with: the range of the bands
ScoreInputs == 0..100

\* ModelRouter._score_to_tier(score, is_research)
CallScoreToTier(score, is_research) ==
    /\ call' = [op |-> "_score_to_tier", score |-> score, is_research |-> is_research]
    /\ result' = [kind |-> "Tier", value |-> ScoreToTier(score, is_research)]
    /\ UNCHANGED <<cache_file, gateway, posts, pc, peer, MODELS, config, outcomes, file, clock>>

\* the tasks _detect_task_type() is called with: the empty task, tasks
\* with a word of one rule or of two rules in either order, in both cases,
\* a task of no rule, and "design" before "system" on one line and on two
ClassifierTasks ==
    LET words == {"", "latest", "Architect", "typo", "QUICK", "code", "write", "data"} IN
    {IF a = "" \/ b = "" THEN a \o b ELSE a \o " " \o b : a, b \in words}
        \cup {"hello there", "design of a system", "design\nsystem"}

\* ModelRouter._detect_task_type(task)
CallDetectTaskType(task) ==
    /\ call' = [op |-> "_detect_task_type", task |-> task]
    /\ result' = [kind |-> "str", value |-> DetectTaskType(task)]
    /\ UNCHANGED <<cache_file, gateway, posts, pc, peer, MODELS, config, outcomes, file, clock>>

NextTier ==
    \/ \E s \in ScoreInputs, r \in BOOLEAN : CallScoreToTier(s, r)
    \/ \E t \in ClassifierTasks : CallDetectTaskType(t)

SpecTier == InitDefault /\ [][NextTier]_vars

\* the specs register() is called with: a new model, the same switched off,
\* and a model of the defaults switched off
RegisterSpecs ==
    { SpecFromDict([id |-> "test/to-remove", provider |-> "test", tier |-> "free",
                    capabilities |-> {"chat"}, aliases |-> <<"Gone">>]),
      SpecFromDict([id |-> "test/to-remove", provider |-> "test", tier |-> "free",
                    capabilities |-> {"chat"}, aliases |-> <<"Gone">>, status |-> "disabled"]),
      SpecFromDict([id |-> "cliproxy/gemini-2.5-flash", status |-> "disabled"]) }

\* the names get() is called with, ids and aliases
LookupNames ==
    {"test/to-remove", "Gone", "gone", "cliproxy/gemini-2.5-flash", "cliproxy-flash", "no/model"}

\* MODELS.register(spec)
Register(spec) ==
    /\ MODELS' = RegistryRegister(MODELS, spec)
    /\ call' = [op |-> "register", spec |-> spec]
    /\ result' = NoResult
    /\ UNCHANGED <<cache_file, gateway, posts, pc, peer, config, outcomes, file, clock>>

\* MODELS.unregister(model_id)
Unregister(model_id) ==
    /\ MODELS' = [MODELS EXCEPT !.by_id = PopId(MODELS.by_id, model_id)]
    /\ call' = [op |-> "unregister", model_id |-> model_id]
    /\ result' = NoResult
    /\ UNCHANGED <<cache_file, gateway, posts, pc, peer, config, outcomes, file, clock>>

\* MODELS.get(id_or_alias)
GetModel(id_or_alias) ==
    /\ call' = [op |-> "get", id_or_alias |-> id_or_alias]
    /\ result' = [kind |-> "Optional[ModelSpec]", value |-> RegistryGet(MODELS, id_or_alias)]
    /\ UNCHANGED <<cache_file, gateway, posts, pc, peer, MODELS, config, outcomes, file, clock>>

\* a "data" list that https://openrouter.ai/api/v1/models answers
\* discover() with: a free model, a model with free input and paid
\* output, the auto router with its price of -1 per token, a research
\* model, a model of _SKIP_PATTERNS, a model above max_cost_per_1m and an
\* entry without id
ApiModels ==
    << [id |-> "meta-llama/llama-3.1-8b-instruct:free",
       pricing |-> [prompt |-> 0, completion |-> 0], context_length |-> 131072],
      [id |-> "qwen/qwen-2.5-7b-promo",
       pricing |-> [prompt |-> 0, completion |-> 100], context_length |-> 32768],
      [id |-> "openrouter/auto",
       pricing |-> [prompt |-> -1000000000, completion |-> -1000000000],
       context_length |-> 2000000],
      [id |-> "perplexity/sonar", pricing |-> [prompt |-> 1000, completion |-> 1000],
       created |-> 1, description |-> "search"],
      [id |-> "openai/o1-pro", pricing |-> [prompt |-> 15000, completion |-> 60000]],
      [id |-> "anthropic/claude-opus", pricing |-> [prompt |-> 30000, completion |-> 150000]],
      [pricing |-> [prompt |-> 0, completion |-> 0]] >>

\* MODELS.discover(api_key) when the API answers with the list data: every
\* entry that is not skipped is registered, then the cache file is saved
\* (a spec of the model is its to_dict); the time of the request passes
Discover(data) ==
    LET Ignored(m) == Get(m, "id", "") = ""
        Skipped(m) ==
            \/ ContainsAny("openrouter/" \o m.id,
                           {"openai/o1", "openai/gpt-4-32k", "mistralai/codestral-mamba"})
            \/ Get(Get(m, "pricing", <<>>), "prompt", 0) > 20000
        Kept(i) == ~Ignored(data[i]) /\ ~Skipped(data[i])
        regs[i \in 0..Len(data)] ==
            IF i = 0 THEN MODELS
            ELSE IF Kept(i) THEN RegistryRegister(regs[i - 1], DiscoveredSpec(data[i], clock))
            ELSE regs[i - 1]
        IsNew(i) == \A j \in 1..Len(regs[i - 1].by_id) :
                        regs[i - 1].by_id[j].id # "openrouter/" \o data[i].id
    IN /\ MODELS' = regs[Len(data)]
       /\ cache_file' = Some(MODELS'.by_id)
       /\ call' = [op |-> "discover", data |-> data]
       /\ result' = [kind |-> "dict",
                     value |-> [added |-> Cardinality({i \in 1..Len(data) : Kept(i) /\ IsNew(i)}),
                                updated |-> Cardinality({i \in 1..Len(data) : Kept(i) /\ ~IsNew(i)}),
                                skipped |-> Cardinality({i \in 1..Len(data) :
                                                ~Ignored(data[i]) /\ Skipped(data[i])})]]
       /\ clock' = clock + 1
       /\ UNCHANGED <<config, outcomes, file, gateway, posts, peer, pc>>

MaxDiscoverCalls == 1

NextRegistry ==
    \/ \E spec \in RegisterSpecs : Register(spec)
    \/ \E spec \in RegisterSpecs : Unregister(spec.id)
    \/ \E name \in LookupNames : GetModel(name)
    \/ /\ clock < StartTime + MaxDiscoverCalls
       /\ \E i \in {2, 3} : Discover(ApiModels) \/ Discover(<<ApiModels[i]>>)

SpecRegistry == InitLearn /\ [][NextRegistry]_vars

MaxSignatureCalls == 1

NextSignature ==
    \/ \E t \in SignatureTasks : Route(t, None)
    \/ /\ clock < StartTime + MaxSignatureCalls
       /\ \E m \in RecordModels, t \in UNION SameTasks :
             RecordOutcome(m, t, TRUE, 0)

SpecSignature == InitDefault /\ [][NextSignature]_vars

MaxStoreCalls == 1

\* ModelRouter(outcomes_path=...) on an outcome file that loads or does not
InitStore ==
    /\ cache_file = Nothing
    /\ MODELS = RegistryInit(Nothing)
    /\ config = [prefer_free |-> TRUE, available_providers |-> Nothing]
    /\ \E f \in LostFiles \cup {HistoryFile} :
          file = f /\ outcomes = LoadOutcomes(f) /\ result = Constructed(f)
    /\ clock = StartTime
    /\ gateway = [providers |-> {}, max_retries |-> 2]
    /\ posts = <<>>
    /\ peer = Nothing
    /\ pc = <<"idle", "idle">>
    /\ call = [op |-> "__init__"]

NextStore ==
    \/ \E t \in BandTasks : Route(t, None)
    \/ /\ clock < StartTime + MaxStoreCalls
       /\ \E m \in LogModels, t \in RecordTasks, s \in BOOLEAN, l \in {0, 9001} :
             RecordOutcome(m, t, s, l) \/ RecordOutcomeSaveFails(m, t, s, l)
    \/ \E m \in RateModels : GetSuccessRate(m) \/ GetAvgLatency(m)
    \/ GetStats
    \/ NewRouter

SpecStore == InitStore /\ [][NextStore]_vars

\* the route() calls on routers of every catalog, provider set and
\* preference
NextEscalate ==
    \E t \in EscalationTasks, c \in {None, "code", "reasoning"} : Route(t, c)

SpecEscalate == Init /\ [][NextEscalate]_vars

\* What the gateway is called with: the answers of a provider to a POST of
\* _post_with_retry, the answers of a provider to every POST of one chat of
\* a fallback chain, and the chains of chat_with_fallbacks (no gateway has
\* ollama)
GatewayInputs ==
    [answers |->
        { [status |-> 200, body |-> "choices"],
          [status |-> 429],
          [status |-> 429, retry_after |-> "Wed, 21 Oct 2015 07:28:00 GMT"],
          [status |-> 503],
          [status |-> 404],
          [raises |-> "TimeoutException"],
          [raises |-> "ConnectError"],
          [raises |-> "ReadError"] },
     chain_answers |->
        { [status |-> 200, body |-> "choices"],
          [status |-> 200, body |-> "empty"],
          [status |-> 503],
          [raises |-> "ReadError"] },
     chains |->
        { <<>>,
          << <<"cliproxy", "cliproxy/gemini-2.5-flash">> >>,
          << <<"cliproxy", "cliproxy/gemini-2.5-flash">>,
             <<"cliproxy", "cliproxy/claude-sonnet-4-5">> >>,
          << <<"openrouter", "openrouter/perplexity/sonar-pro">>,
             <<"cliproxy", "cliproxy/gemini-2.5-flash">> >>,
          << <<"ollama", "llama3">>,
             <<"cliproxy", "cliproxy/gemini-2.5-flash">>,
             <<"openrouter", "openrouter/perplexity/sonar-pro">> >> }]

\* LLMGateway(providers, max_retries=max_retries)
NewGateway(providers, max_retries) ==
    /\ gateway' = [providers |-> providers, max_retries |-> max_retries]
    /\ posts' = <<>>
    /\ call' = [op |-> "LLMGateway", providers |-> providers, max_retries |-> max_retries]
    /\ result' = NoResult
    /\ UNCHANGED <<MODELS, cache_file, config, outcomes, file, clock, peer, pc>>

\* gateway._post_with_retry(endpoint, "/chat/completions", body, timeout) on
\* the endpoint of a configured provider, with a body for the model
PostWithRetry(provider, model, answers) ==
    LET r == post_with_retry(gateway.max_retries, answers) IN
    /\ provider \in gateway.providers
    /\ posts' = [i \in 1..r.attempts |->
                    [provider |-> provider, model |-> model, answer |-> answers[i]]]
    /\ call' = [op |-> "_post_with_retry", provider |-> provider, model |-> model]
    /\ result' = [kind |-> r.kind, value |-> r.value]
    /\ UNCHANGED <<MODELS, cache_file, config, outcomes, file, clock, gateway, peer, pc>>

\* gateway.chat_with_fallbacks(fallback_chain, messages)
ChatWithFallbacks(fallback_chain, answers) ==
    LET r == chat_with_fallbacks(gateway, fallback_chain, answers) IN
    /\ posts' = r.posts
    /\ call' = [op |-> "chat_with_fallbacks", fallback_chain |-> fallback_chain,
                answers |-> answers]
    /\ result' = [kind |-> r.kind, value |-> r.value]
    /\ UNCHANGED <<MODELS, cache_file, config, outcomes, file, clock, gateway, peer, pc>>

NextGateway ==
    \/ \E ps \in {{}, {"cliproxy"}, {"cliproxy", "openrouter"}}, n \in 0..2 : NewGateway(ps, n)
    \/ \E as \in [1..(gateway.max_retries + 1) -> GatewayInputs.answers] :
          PostWithRetry("cliproxy", "cliproxy/gemini-2.5-flash", as)
    \/ \E c \in GatewayInputs.chains :
          \E as \in [1..Len(c) -> {[i \in 1..(gateway.max_retries + 1) |-> a] :
                                       a \in GatewayInputs.chain_answers}] :
              ChatWithFallbacks(c, as)

SpecGateway == InitDefault /\ [][NextGateway]_vars

\* -------------------------------------------------------------- the tool

\* a faulty llm_call, which records the failure of a routed call too
ExecuteRecordsFailure(prompt, model, capability, answers, latency_ms) ==
    \* the explicit model: MODELS.get, or provider/model
    \E spec \in {RegistryGet(MODELS, model)} :
    \E provider \in {IF spec # Nothing THEN spec[1].provider ELSE FirstSegment(model)} :
    \E model_id \in {IF spec = Nothing THEN SubSeq(model, Len(provider) + 2, Len(model))
                     ELSE IF /\ Contains(spec[1].id, "/")
                             /\ StartsWith(spec[1].id, provider \o "/")
                     THEN SubSeq(spec[1].id, Len(provider) + 2, Len(spec[1].id))
                     ELSE spec[1].id} :
    \E r \in {chat(gateway, provider, model_id, answers[1])} :
    \E sent \in {[i \in 1..r.attempts |->
                     [provider |-> provider, model |-> model_id, answer |-> answers[1][i]]]} :
    \* the route and its chain
    \E route \in {RouteCall(config, MODELS, outcomes, prompt,
                            IF capability # "" THEN capability ELSE None)} :
    \E chain \in {IF route.kind # "RouteResult" THEN <<>>
                  ELSE << <<route.model.provider, route.model.id>> >>
                       \o [i \in 1..Len(route.fallbacks) |->
                              <<route.fallbacks[i].provider, route.fallbacks[i].id>>]} :
    \E c \in {chat_with_fallbacks(gateway, chain, answers)} :
    \E done \in {
        LET failure(error, posted, record) ==
                [success |-> FALSE, error |-> error, posts |-> posted, record |-> record]
            response(value, posted, record) ==
                [success |-> TRUE, response |-> value, posts |-> posted, record |-> record]
        IN IF model # ""
           THEN IF spec = Nothing /\ ~Contains(model, "/")
                THEN failure("Unknown model", <<>>, Nothing)
                ELSE IF provider \notin gateway.providers
                THEN failure("Provider not available", <<>>, Nothing)
                ELSE IF r.kind = "GatewayResponse" THEN response(r.value, sent, Nothing)
                ELSE IF r.kind = "LLMGatewayError"
                THEN failure(r.kind, sent, Some(NewRecord(model, prompt, FALSE, 0, clock)))
                ELSE failure(r.kind, sent, Nothing)
           ELSE IF capability # "" /\ capability \notin Capabilities
                THEN failure("ValueError", <<>>, Nothing)
                ELSE IF route.kind # "RouteResult" THEN failure(route.kind, <<>>, Nothing)
                ELSE IF c.kind = "GatewayResponse"
                THEN response(c.value, c.posts,
                              Some(NewRecord(route.model.id, prompt, TRUE, latency_ms, clock)))
                ELSE IF c.kind = "LLMGatewayError"
                THEN failure(c.kind, c.posts, Some(NewRecord(route.model.id, prompt, FALSE, 0, clock)))
                ELSE failure(c.kind, c.posts, Nothing)} :
        /\ posts' = done.posts
        /\ outcomes' = IF done.record = Nothing THEN outcomes
                       ELSE Appended(outcomes, done.record[1])
        /\ file' = IF done.record = Nothing THEN file ELSE SavedFile(outcomes')
        /\ clock' = clock + 1
        /\ call' = [op |-> "execute", prompt |-> prompt, model |-> model,
                    capability |-> capability]
        /\ result' = [kind |-> "ToolResult"] @@ [k \in DOMAIN done \ {"posts", "record"} |-> done[k]]
        /\ UNCHANGED <<MODELS, cache_file, config, gateway, peer, pc>>

\* LLMCallTool(gateway, router).execute(prompt, model=model,
\* capability=capability): answers[k] are the answers to the POSTs of the
\* k-th chat (the only chat of an explicit model), latency_ms is the latency
\* of the GatewayResponse; the ToolResult, with the record_outcome of the
\* call, its save included. Each value is worked out once, whichever branch
\* uses it.
Execute(prompt, model, capability, answers, latency_ms) ==
    \* the explicit model: MODELS.get, or provider/model
    \E spec \in {RegistryGet(MODELS, model)} :
    \E provider \in {IF spec # Nothing THEN spec[1].provider ELSE FirstSegment(model)} :
    \E model_id \in {IF spec = Nothing THEN SubSeq(model, Len(provider) + 2, Len(model))
                     ELSE IF /\ Contains(spec[1].id, "/")
                             /\ StartsWith(spec[1].id, provider \o "/")
                     THEN SubSeq(spec[1].id, Len(provider) + 2, Len(spec[1].id))
                     ELSE spec[1].id} :
    \E r \in {chat(gateway, provider, model_id, answers[1])} :
    \E sent \in {[i \in 1..r.attempts |->
                     [provider |-> provider, model |-> model_id, answer |-> answers[1][i]]]} :
    \* the route and its chain
    \E route \in {RouteCall(config, MODELS, outcomes, prompt,
                            IF capability # "" THEN capability ELSE None)} :
    \E chain \in {IF route.kind # "RouteResult" THEN <<>>
                  ELSE << <<route.model.provider, route.model.id>> >>
                       \o [i \in 1..Len(route.fallbacks) |->
                              <<route.fallbacks[i].provider, route.fallbacks[i].id>>]} :
    \E c \in {chat_with_fallbacks(gateway, chain, answers)} :
    \E done \in {
        LET failure(error, posted, record) ==
                [success |-> FALSE, error |-> error, posts |-> posted, record |-> record]
            response(value, posted, record) ==
                [success |-> TRUE, response |-> value, posts |-> posted, record |-> record]
        IN IF model # ""
           THEN IF spec = Nothing /\ ~Contains(model, "/")
                THEN failure("Unknown model", <<>>, Nothing)
                ELSE IF provider \notin gateway.providers
                THEN failure("Provider not available", <<>>, Nothing)
                ELSE IF r.kind = "GatewayResponse" THEN response(r.value, sent, Nothing)
                ELSE IF r.kind = "LLMGatewayError"
                THEN failure(r.kind, sent, Some(NewRecord(model, prompt, FALSE, 0, clock)))
                ELSE failure(r.kind, sent, Nothing)
           ELSE IF capability # "" /\ capability \notin Capabilities
                THEN failure("ValueError", <<>>, Nothing)
                ELSE IF route.kind # "RouteResult" THEN failure(route.kind, <<>>, Nothing)
                ELSE IF c.kind = "GatewayResponse"
                THEN response(c.value, c.posts,
                              Some(NewRecord(route.model.id, prompt, TRUE, latency_ms, clock)))
                ELSE IF c.kind = "LLMGatewayError"
                THEN failure(c.kind, c.posts, Nothing)
                ELSE failure(c.kind, c.posts, Nothing)} :
        /\ posts' = done.posts
        /\ outcomes' = IF done.record = Nothing THEN outcomes
                       ELSE Appended(outcomes, done.record[1])
        /\ file' = IF done.record = Nothing THEN file ELSE SavedFile(outcomes')
        /\ clock' = clock + 1
        /\ call' = [op |-> "execute", prompt |-> prompt, model |-> model,
                    capability |-> capability]
        /\ result' = [kind |-> "ToolResult"] @@ [k \in DOMAIN done \ {"posts", "record"} |-> done[k]]
        /\ UNCHANGED <<MODELS, cache_file, config, gateway, peer, pc>>

\* the llm_call calls of a run
MaxToolCalls == 1

\* a gateway is built, and the tool is called with a prompt: without a
\* model, with a capability (none, one of the enum, one that is not), one
\* answer to every POST of the first chat and one to every POST of the
\* later chats; or with a model (an alias, an id, provider/model of no
\* catalog entry, a name that is neither) and one answer to every POST
NextTool ==
    \/ \E ps \in {{"cliproxy"}, {"cliproxy", "openrouter"}}, n \in {0, 2} : NewGateway(ps, n)
    \/ /\ clock < StartTime + MaxToolCalls
       /\ \E prompt \in {"hi", "Design system architecture for microservices"},
             a1 \in GatewayInputs.chain_answers :
             \/ \E capability \in {"", "code", "telepathy"},
                   a2 \in GatewayInputs.chain_answers,
                   latency_ms \in Latencies \ {0} :
                      Execute(prompt, "", capability,
                              [k \in 1..5 |-> [i \in 1..(gateway.max_retries + 1) |->
                                                  IF k = 1 THEN a1 ELSE a2]],
                              latency_ms)
             \/ \E model \in {"cliproxy-flash", "cliproxy/gemini-2.5-flash",
                              "groq/llama-3", "gpt"} :
                      Execute(prompt, model, "",
                              [k \in 1..5 |-> [i \in 1..(gateway.max_retries + 1) |-> a1]],
                              0)

SpecTool == InitDefault /\ [][NextTool]_vars

\* ------------------------------------------- two routers on one file

\* The bytes of json.dumps(data, indent=2, ensure_ascii=False) for the
\* dicts of to_dict: 36 for no outcome, else 38 and 132 for each outcome
\* (the signature of 12 characters included) and the bytes of its model,
\* outcome, task, ts (a float: n.0) and latency
DocSize(dicts) ==
    LET Width(n) == IF n < 10 THEN 1 ELSE IF n < 100 THEN 2 ELSE IF n < 1000 THEN 3
                    ELSE IF n < 10000 THEN 4 ELSE 5
        bytes(i) == 132 + Len(dicts[i].model) + Len(dicts[i].outcome) + Len(dicts[i].task)
                        + Width(dicts[i].ts) + 2 + Width(dicts[i].latency)
    IN IF dicts = <<>> THEN 36 ELSE 38 + SumMap(bytes, 1, Len(dicts))

\* a second ModelRouter(outcomes_path=...) on the outcome file of the first
NewPeer ==
    /\ peer = Nothing
    /\ peer' = Some(LoadOutcomes(file))
    /\ call' = [op |-> "__init__", router |-> 2]
    /\ result' = Constructed(file)
    /\ UNCHANGED <<MODELS, cache_file, config, outcomes, file, clock, gateway, posts, pc>>

\* record_outcome of router i up to _save_outcomes: the record is in the log
\* of the router
RecordAppend(i, model_id, task, success, latency_ms) ==
    LET record == NewRecord(model_id, task, success, latency_ms, clock) IN
    /\ pc[i] = "idle"
    /\ i = 2 => peer # Nothing
    /\ outcomes' = IF i = 1 THEN Appended(outcomes, record) ELSE outcomes
    /\ peer' = IF i = 2 THEN Some(Appended(peer[1], record)) ELSE peer
    /\ pc' = [pc EXCEPT ![i] = "save"]
    /\ clock' = clock + 1
    /\ call' = [op |-> "record_outcome", router |-> i, model_id |-> model_id, task |-> task,
                success |-> success, latency_ms |-> latency_ms]
    /\ result' = NoResult
    /\ UNCHANGED <<MODELS, cache_file, config, file, gateway, posts>>

\* write_text of _save_outcomes of router i opens the file for writing: the
\* file is there and empty
SaveOpen(i) ==
    /\ pc[i] = "save"
    /\ file' = [exists |-> TRUE, text |-> "", size |-> 0]
    /\ pc' = [pc EXCEPT ![i] = "write"]
    /\ call' = [op |-> "open", router |-> i]
    /\ result' = NoResult
    /\ UNCHANGED <<MODELS, cache_file, config, outcomes, clock, gateway, posts, peer>>

\* write_text of _save_outcomes of router i writes the document from the
\* start of the file and closes it: the bytes that another writer wrote
\* beyond the end of the document, after this one opened the file, stay
SaveWrite(i) ==
    LET log == IF i = 1 THEN outcomes ELSE peer[1]
        written == SavedFile(log)
        size == IF ~file.exists THEN 0
                ELSE IF "size" \in DOMAIN file THEN file.size
                ELSE DocSize(file.data.outcomes)
    IN /\ pc[i] = "write"
       /\ file' = IF DocSize(written.data.outcomes) >= size THEN written
                  ELSE [exists |-> TRUE, text |-> "document, then extra data", size |-> size]
       /\ pc' = [pc EXCEPT ![i] = "idle"]
       /\ call' = [op |-> "write_text", router |-> i]
       /\ result' = NoResult
       /\ UNCHANGED <<MODELS, cache_file, config, outcomes, clock, gateway, posts, peer>>

\* the record_outcome calls of the two routers
MaxPairCalls == 2

\* the steps of two routers: each is in one record_outcome at a time
NextPair ==
    \/ NewPeer
    \/ /\ clock < StartTime + MaxPairCalls
       /\ \E i \in {1, 2}, m \in LogModels, t \in RecordTasks \cup {"hi"}, s \in BOOLEAN :
             RecordAppend(i, m, t, s, 0)
    \/ \E i \in {1, 2} : SaveOpen(i)
    \/ \E i \in {1, 2} : SaveWrite(i)

SpecPair == InitDefault /\ [][NextPair]_vars

\* ------------------------------------------------------------ the score

\* C1: for every task, the empty one and the ones that hold every positive
\* or every negative keyword included, and every outcome history, the score
\* of _score_task is an integer of 5..95, and so is the score of a RouteResult
C1_ScoreInRange ==
    /\ \A t \in Tasks : ScoreTask(t, TaskMemo[t].task_type, MODELS, outcomes) \in 5..95
    /\ (call.op = "route" /\ result.kind = "RouteResult") => result.score \in 5..95

\* route() has returned the lower bound for a task whose score before the
\* clamp is under it
C1_Witness ==
    /\ call.op = "route"
    /\ result.kind = "RouteResult"
    /\ TaskMemo[call.task].running < 5
    /\ result.score = 5

\* ---------------------------------------------------------- the outcome log

\* the record that the last record_outcome call was to add
CalledRecord(c, now) ==
    [signature |-> ComputeSignature(c.task),
     model_id |-> c.model_id,
     outcome |-> IF c.success THEN "success" ELSE "fail",
     task_preview |-> Prefix(c.task, 100),
     timestamp |-> now,
     latency_ms |-> c.latency_ms]

\* C2: record_outcome leaves at most 1000 records; when the append makes more
\* than 1000, the log becomes its 500 most recent records in their order, the
\* new record last; otherwise the log grows by the new record
C2_LogBounded ==
    [][call'.op = "record_outcome" =>
        LET n == Len(outcomes)
            m == Len(outcomes')
        IN /\ m <= 1000
           /\ outcomes'[m] = CalledRecord(call', clock)
           /\ IF n + 1 > 1000
              THEN /\ m = 500
                   /\ \A i \in 1..499 : outcomes'[i] = outcomes[n - 499 + i]
              ELSE /\ m = n + 1
                   /\ \A i \in 1..n : outcomes'[i] = outcomes[i]]_vars

\* record_outcome has returned from a call that cut the log to 500 records
C2_Witness ==
    /\ call.op = "record_outcome"
    /\ Len(outcomes) = 500
    /\ outcomes[500].timestamp >= StartTime

\* C3: get_success_rate(model_id) is 1.0 when the log holds no record of the
\* model, and otherwise successes / records over the records of that model
\* alone, a value of [0, 1]
C3_SuccessRate ==
    call.op = "get_success_rate" =>
        LET of == {i \in 1..Len(outcomes) : outcomes[i].model_id = call.model_id}
            ok == {i \in of : outcomes[i].outcome = "success"}
            rate == result.value
        IN /\ rate[2] > 0
           /\ 0 <= rate[1] /\ rate[1] <= rate[2]
           /\ IF of = {} THEN rate[1] = rate[2]
              ELSE rate[1] * Cardinality(of) = Cardinality(ok) * rate[2]

\* get_success_rate has returned a rate strictly between 0 and 1 from a log
\* that also holds records of another model
C3_Witness ==
    /\ call.op = "get_success_rate"
    /\ 0 < result.value[1] /\ result.value[1] < result.value[2]
    /\ \E i \in 1..Len(outcomes) : outcomes[i].model_id # call.model_id

\* C4: at every moment a fresh router on the same path would load the log the
\* running router holds, and so answer get_success_rate alike for every model
C4_RoundTrip ==
    /\ LoadOutcomes(file) = outcomes
    /\ \A m \in RateModels :
          get_success_rate(LoadOutcomes(file), m) = get_success_rate(outcomes, m)

\* a fresh router has been constructed after record_outcome calls, one of
\* them a failure
C4_Witness ==
    /\ call.op = "__init__"
    /\ clock > StartTime
    /\ \E i \in 1..Len(outcomes) :
          outcomes[i].timestamp >= StartTime /\ outcomes[i].outcome = "fail"

\* --------------------------------------------------------------- routing

\* the last call was route(), and it returned a RouteResult
Routed == call.op = "route" /\ result.kind = "RouteResult"

\* the task of the last route() call is one the classifier tags as research
ResearchTask == DetectTaskType(call.task) = "research"

\* a catalog model passes the filters of the last route() call: the required
\* capability, and the provider set when one is in force
Passes(m) ==
    /\ call.required_capability = None \/ call.required_capability \in m.capabilities
    /\ ~ProvidersSet(config) \/ m.provider \in config.available_providers[1]

\* the places in the catalog of the models of a tier that pass the filters
EligibleIn(tier) ==
    {i \in 1..Len(MODELS.by_id) : MODELS.by_id[i].tier = tier /\ Passes(MODELS.by_id[i])}

\* C5 as stated: route() raises RouterError only when none of the five tiers
\* holds a model that passes the filters
C5_EveryTier ==
    (call.op = "route" /\ result = RouterError) => \A t \in Tiers : EligibleIn(t) = {}

\* the tiers route() looks into: the tier the task maps to and the four of the
\* escalation order; research is among them for a research task only
Searched ==
    {"free", "cheap", "standard", "premium"}
        \cup (IF ResearchTask THEN {"research"} ELSE {})

\* C5: route() raises RouterError exactly when no tier it looks into holds a
\* model that passes the filters, and returns a RouteResult otherwise
C5_SearchedTiers ==
    call.op = "route" =>
        /\ result = RouterError <=> \A t \in Searched : EligibleIn(t) = {}
        /\ result # RouterError => result.kind = "RouteResult"

\* route() has raised RouterError for a task that is not research, with a
\* model that passes the filters in the research tier
C5_Witness ==
    /\ call.op = "route"
    /\ result = RouterError
    /\ ~ResearchTask
    /\ EligibleIn("research") # {}

\* C6 as stated: a research task is routed with tier research
C6_AlwaysResearch == (Routed /\ ResearchTask) => result.tier = "research"

\* C6: a research task is routed with tier research exactly when the research
\* tier holds a model that passes the filters, whatever the task's score
C6_ResearchWhenEligible ==
    (Routed /\ ResearchTask) =>
        (result.tier = "research" <=> EligibleIn("research") # {})

\* a research task whose score alone maps to premium has been routed with
\* tier research
C6_Witness ==
    /\ Routed
    /\ ResearchTask
    /\ result.score > 75
    /\ result.tier = "research"

\* C7: the fallbacks of a RouteResult hold neither the primary's id nor an id
\* twice, are at most 4, and each has the required capability when one is given
C7_Fallbacks ==
    Routed =>
        LET fb == result.fallbacks IN
        /\ \A i \in 1..Len(fb) : fb[i].id # result.model.id
        /\ \A i, j \in 1..Len(fb) : i # j => fb[i].id # fb[j].id
        /\ Len(fb) <= 4
        /\ call.required_capability # None =>
              \A i \in 1..Len(fb) : call.required_capability \in fb[i].capabilities

\* route() with a required capability has returned 4 fallbacks where the
\* catalog holds more than 4 other models with the capability
C7_Witness ==
    /\ Routed
    /\ call.required_capability # None
    /\ Len(result.fallbacks) = 4
    /\ Cardinality({i \in 1..Len(MODELS.by_id) :
                       /\ MODELS.by_id[i].id # result.model.id
                       /\ MODELS.by_id[i].tier # "research"
                       /\ Passes(MODELS.by_id[i])}) > 4

\* C8 as stated: with a provider set configured, the empty one included, the
\* model of a RouteResult and its fallbacks have their providers in the set
C8_ProvidersRespected ==
    (Routed /\ config.available_providers # Nothing) =>
        /\ result.model.provider \in config.available_providers[1]
        /\ \A i \in 1..Len(result.fallbacks) :
              result.fallbacks[i].provider \in config.available_providers[1]

\* the tier the score and the research flag of the last route() call map to
MappedTier == ScoreToTier(result.score, ResearchTask)

\* C9: the model of a RouteResult has the required capability when one is given
C9_Capability ==
    (Routed /\ call.required_capability # None) =>
        call.required_capability \in result.model.capabilities

\* route() with a required capability has returned a model of a tier the
\* escalation loop reached, where the mapped tier holds models without it
C9_Witness ==
    /\ Routed
    /\ call.required_capability # None
    /\ result.tier # MappedTier
    /\ list_by_tier(MODELS, MappedTier) # <<>>

\* the candidates _select_model chooses among, as places in the catalog: the
\* free ones when prefer_free is set and there is one, all of them otherwise
Pool ==
    LET free == {i \in EligibleIn(result.tier) : is_free(MODELS.by_id[i])} IN
    IF config.prefer_free /\ free # {} THEN free ELSE EligibleIn(result.tier)

\* C10 as stated: the model returned is a candidate of the pool, and none of
\* the pool has a higher
\*   priority * 0.4 + rate * 30 + speed * 4 - min(30, avg_latency / 200)
C10_HighestFormula ==
    Routed =>
        /\ \E i \in Pool : MODELS.by_id[i] = result.model
        /\ \A i \in Pool : ~FracLess(RawComposite(result.model, outcomes),
                                     RawComposite(MODELS.by_id[i], outcomes))

\* C10: the model returned is the first in catalog order of the candidates of
\* the pool with the highest composite, the formula's value kept within 0..100
C10_HighestClamped ==
    Routed =>
        \E k \in Pool :
            /\ MODELS.by_id[k] = result.model
            /\ \A i \in Pool :
                  /\ ~FracLess(CompositeScore(result.model, outcomes),
                               CompositeScore(MODELS.by_id[i], outcomes))
                  /\ CompositeScore(MODELS.by_id[i], outcomes)
                        = CompositeScore(result.model, outcomes) => k <= i

\* _select_model has returned a model where another candidate of the pool has
\* a higher value of the formula and the same composite
C10_Witness ==
    /\ Routed
    /\ \E i \in Pool :
          /\ FracLess(RawComposite(result.model, outcomes),
                      RawComposite(MODELS.by_id[i], outcomes))
          /\ CompositeScore(MODELS.by_id[i], outcomes)
                = CompositeScore(result.model, outcomes)

\* ------------------------------------------------ the learning adjustment

\* a free-tier model of the registry has a success rate under 0.5
FreeTierFailing ==
    \E i \in 1..Len(list_by_tier(MODELS, "free")) :
        FracLess(get_success_rate(outcomes, list_by_tier(MODELS, "free")[i].id), <<1, 2>>)

\* C11: whenever a free-tier model has a recorded success rate under 0.5,
\* route() gives every task whose running score is in the free band, 0 to 25
\* inclusive, the score 31, and returns no result with both a score of at
\* most 25 and the tier free
C11_BandForced ==
    (call.op = "route" /\ result.kind = "RouteResult" /\ FreeTierFailing) =>
        /\ TaskMemo[call.task].running \in 0..25 => result.score = 31
        /\ ~(result.score <= 25 /\ result.tier = "free")

\* ------------------------------------------------------- the tier mapper

\* the place of a tier in the order free < cheap < standard < premium
TierRank(tier) == CHOOSE i \in 1..Len(tier_order) : tier_order[i] = tier

\* the bands that hold a score
BandsOf(score) ==
    {i \in 1..Len(TIER_THRESHOLDS) :
        TIER_THRESHOLDS[i][2] <= score /\ score <= TIER_THRESHOLDS[i][3]}

\* C12: with the research flag false, _score_to_tier maps an integer score
\* of 5..95 to a tier that is not cheaper than the tier of any smaller score
\* of 5..95, in the order free < cheap < standard < premium; the four bands
\* are contiguous and do not overlap, so the score is in exactly one band,
\* whose tier is the result
C12_TierOrder ==
    /\ \A i \in 1..(Len(TIER_THRESHOLDS) - 1) :
          TIER_THRESHOLDS[i + 1][2] = TIER_THRESHOLDS[i][3] + 1
    /\ (call.op = "_score_to_tier" /\ ~call.is_research /\ call.score \in 5..95) =>
          /\ \A a \in 5..(call.score - 1) :
                TierRank(ScoreToTier(a, FALSE)) <= TierRank(result.value)
          /\ Cardinality(BandsOf(call.score)) = 1
          /\ \A i \in BandsOf(call.score) : result.value = TIER_THRESHOLDS[i][1]

\* _score_to_tier has mapped the lower bound of the cheap band, one above
\* the free band
C12_Witness ==
    /\ call.op = "_score_to_tier" /\ ~call.is_research
    /\ call.score = 26 /\ result.value = "cheap"
    /\ ScoreToTier(25, FALSE) = "free"

\* ---------------------------------------------------- the task signature

\* the tasks of the class of a task, the task itself among them
SameAs(task) == {task} \cup UNION {c \in SameTasks : task \in c}

HexDigits == Chars("0123456789abcdef")

\* C13: the signature route() returns is the one _compute_signature gives
\* the task text whatever the history, 12 hexadecimal characters; it is the
\* signature of every task that differs from the task only in digit runs,
\* in the name (a run of word characters) of a file with a listed extension,
\* in letter case or in whitespace runs; and it is the signature that
\* record_outcome stored for such a task
C13_SameSignature ==
    (call.op = "route" /\ result.kind = "RouteResult") =>
        /\ result.signature = ComputeSignature(call.task)
        /\ Len(result.signature) = 12 /\ Chars(result.signature) \subseteq HexDigits
        /\ \A t \in SameAs(call.task) : ComputeSignature(t) = result.signature
        /\ \A i \in 1..Len(outcomes) :
              outcomes[i].task_preview \in SameAs(call.task) => outcomes[i].signature = result.signature

\* route() has returned, for a task, the signature that record_outcome
\* stored for a task of other digits, letter case and whitespace
C13_Witness ==
    /\ call.op = "route" /\ result.kind = "RouteResult"
    /\ call.task = "Fix bug #456 in file.py"
    /\ \E i \in 1..Len(outcomes) :
          /\ outcomes[i].task_preview = "  Fix bug   #123\tin\nfile.py "
          /\ outcomes[i].signature = result.signature

\* C14 as stated: the signature of "fix a.py" is not the signature of
\* "fix b.py", two tasks that differ in the name of a file
C14_NamesDistinct ==
    (call.op = "route" /\ result.kind = "RouteResult" /\ call.task = "fix a.py") =>
        result.signature # ComputeSignature("fix b.py")

\* C14, amended: "fix a.py" and "fix b.py" have the same signature, that of
\* the normalised text "fix FILE.py", for the name of a file with a listed
\* extension is replaced; a task that differs from another in the extension,
\* or in the name of a file whose extension is not listed, has another
\* normalised text and another signature
C14_NamesCollide ==
    /\ (call.op = "route" /\ result.kind = "RouteResult"
            /\ call.task \in {"fix a.py", "fix b.py"}) =>
          /\ Normalize(call.task) = "fix FILE.py"
          /\ result.signature = ComputeSignature("fix a.py")
          /\ result.signature = ComputeSignature("fix b.py")
    /\ (call.op = "route" /\ result.kind = "RouteResult" /\ call.task \in OtherTasks) =>
          \A t \in {"fix a.py", "fix b.py"} \cup (OtherTasks \ {call.task}) :
              /\ Normalize(t) # Normalize(call.task)
              /\ ComputeSignature(t) # result.signature

\* route() has returned for "fix b.py" the signature that record_outcome
\* stored for "fix a.py"
C14_Witness ==
    /\ call.op = "route" /\ result.kind = "RouteResult" /\ call.task = "fix b.py"
    /\ \E i \in 1..Len(outcomes) :
          /\ outcomes[i].task_preview = "fix a.py"
          /\ outcomes[i].signature = result.signature

\* ------------------------------------------------------ the outcome file

\* the log holds no record of a record_outcome call on this router or on
\* one before it in the run: it is as its constructor left it
AsLoaded == \A i \in 1..Len(outcomes) : outcomes[i].timestamp < StartTime

\* C15: a router constructed on an outcome file that is missing, is not
\* JSON, has a list at the top level or has a record without a required
\* field is constructed without an exception and with an empty log; then
\* get_success_rate returns 1.0 for every model id and route() returns what
\* it returns with no history
C15_LoadRecovers ==
    (file \in LostFiles /\ AsLoaded) =>
        /\ outcomes = <<>>
        /\ call.op = "__init__" => result = [kind |-> "None"]
        /\ call.op = "get_success_rate" => result.value = <<1, 1>>
        /\ call.op = "route" =>
              result = RouteCall(config, MODELS, <<>>, call.task, call.required_capability)

\* a router constructed on a file that json.loads rejects has routed a task
C15_Witness ==
    /\ file = CutFile /\ call.op = "route" /\ result.kind = "RouteResult"
    /\ LoadRaises(file) = "JSONDecodeError"

\* C16: a record_outcome call whose save fails leaves the new record last in
\* the in-memory log, and the get_success_rate, get_avg_latency and route
\* calls that follow on the router leave the log as it is and return what the
\* log with that record gives
C16_SaveFailureKeeps ==
    /\ []((call.op = "record_outcome" /\ result.kind = "OSError") =>
            /\ outcomes # <<>>
            /\ outcomes[Len(outcomes)] = CalledRecord(call, clock - 1))
    /\ [][/\ (call'.op \in {"get_success_rate", "get_avg_latency", "route"} =>
                  outcomes' = outcomes)
           /\ (call'.op = "get_success_rate" =>
                  result'.value = get_success_rate(outcomes, call'.model_id))
           /\ (call'.op = "get_avg_latency" =>
                  result'.value = get_avg_latency(outcomes, call'.model_id))
           /\ (call'.op = "route" =>
                  result' = RouteCall(config, MODELS, outcomes, call'.task,
                                      call'.required_capability))]_vars

\* no outcome file was ever written, and route() has forced the score of a
\* task for the failure that the router recorded when the save failed
C16_Witness ==
    /\ file = NoFile /\ Len(outcomes) = 1
    /\ outcomes[1].model_id = "cliproxy/gemini-2.5-flash" /\ outcomes[1].outcome = "fail"
    /\ call.op = "route" /\ call.task = "add a comment"
    /\ result.kind = "RouteResult" /\ result.score = 31

\* ------------------------------------------------------- the keywords

\* C17 as stated: route() gives a task with one high-complexity keyword more
\* a score that is not lower than the score of the task without it, and a
\* task with one low-complexity keyword more a score that is not higher,
\* whatever the length of the task and the outcome history
C17_KeywordMonotone ==
    \A p \in KeywordPairs :
        (call.op = "route" /\ result.kind = "RouteResult" /\ call.task = p[2]) =>
            LET base == ScoreTask(p[1], TaskMemo[p[1]].task_type, MODELS, outcomes) IN
            IF p[3] > 0 THEN result.score >= base ELSE result.score <= base

\* C17, amended: the score with one high-complexity keyword more is never
\* lower; the score with one low-complexity keyword more is not higher when
\* no free-tier model has a success rate under 0.5 and the keyword does not
\* take the task from 50 words or fewer to more than 50
C17_KeywordMonotoneWithin ==
    \A p \in KeywordPairs :
        (call.op = "route" /\ result.kind = "RouteResult" /\ call.task = p[2]) =>
            LET base == ScoreTask(p[1], TaskMemo[p[1]].task_type, MODELS, outcomes) IN
            /\ TaskMemo[p[1]].task_type = "general"
            /\ p[3] > 0 => result.score >= base
            /\ (p[3] < 0 /\ ~FreeTierFailing
                    /\ ~(WordCount(p[1]) <= 50 /\ WordCount(p[2]) > 50)) =>
                  result.score <= base

\* route() has scored a task of nine words and a low-complexity keyword
\* under the nine words alone, with no failing free-tier model
C17_Witness ==
    /\ call.op = "route" /\ result.kind = "RouteResult" /\ ~FreeTierFailing
    /\ \E p \in KeywordPairs :
          /\ p[3] < 0 /\ call.task = p[2] /\ WordCount(p[1]) = 9
          /\ result.score < ScoreTask(p[1], TaskMemo[p[1]].task_type, MODELS, outcomes)

\* ----------------------------------------------------------- the latency

\* C18: get_avg_latency(model_id) returns 2000 when the log holds no record
\* of the model with a latency over 0, and otherwise the mean of the
\* latencies of the model's records with a latency over 0, truncated to an
\* integer; a record with latency 0 does not count
C18_AvgLatency ==
    call.op = "get_avg_latency" =>
        LET counted == {i \in 1..Len(outcomes) :
                           outcomes[i].model_id = call.model_id /\ outcomes[i].latency_ms > 0}
            total[k \in 0..Len(outcomes)] ==
                IF k = 0 THEN 0
                ELSE total[k - 1] + (IF k \in counted THEN outcomes[k].latency_ms ELSE 0)
            n == Cardinality(counted)
        IN IF n = 0 THEN result.value = 2000
           ELSE /\ result.value * n <= total[Len(outcomes)]
                /\ total[Len(outcomes)] < (result.value + 1) * n

\* get_avg_latency has returned the latency of one record of a model whose
\* other record has latency 0
C18_Witness ==
    /\ call.op = "get_avg_latency" /\ call.model_id = "cliproxy/gemini-2.5-flash"
    /\ Len(SelectSeq(outcomes, LAMBDA o : o.model_id = call.model_id /\ o.latency_ms = 0)) = 1
    /\ Len(SelectSeq(outcomes, LAMBDA o : o.model_id = call.model_id)) = 2
    /\ result.value = 300

\* ------------------------------------------------------------- the frame

\* C19: route(), get_success_rate(), get_avg_latency() and get_stats() leave
\* the log and the outcome file as they are; the log changes in
\* record_outcome alone, but for the constructor, which reads it from the
\* file, and the file in record_outcome alone; so what route() returned is
\* what a second call with the same task returns as long as no
\* record_outcome call is made
C19_ReadOnly ==
    /\ [](call.op = "route" =>
            result = RouteCall(config, MODELS, outcomes, call.task, call.required_capability))
    /\ [][/\ (call'.op \in {"route", "get_success_rate", "get_avg_latency", "get_stats"} =>
                  outcomes' = outcomes /\ file' = file)
           /\ (outcomes' # outcomes => call'.op \in {"record_outcome", "__init__"})
           /\ (file' # file => call'.op = "record_outcome")
           /\ (call'.op = "__init__" => outcomes' = LoadOutcomes(file))]_vars

\* get_stats has returned the statistics of a log with two records of a
\* model, which is the log on file
C19_Witness ==
    /\ call.op = "get_stats" /\ outcomes # <<>> /\ file = SavedFile(outcomes)
    /\ "cliproxy/gemini-2.5-flash" \in DOMAIN result.value
    /\ result.value["cliproxy/gemini-2.5-flash"].total = 2
    /\ result.value["cliproxy/gemini-2.5-flash"].avg_latency_ms = 300

\* ---------------------------------------------------------- the registry

\* C20: after unregister(id), and after register() of a spec with that id
\* whose status is not active, get() returns None for the id and for each
\* alias of the model that was registered under the id, and the model is in
\* none of the lists of the registry
C20_Unresolved ==
    [][(call'.op = "unregister" \/ (call'.op = "register" /\ call'.spec.status # "active")) =>
        LET id == IF call'.op = "unregister" THEN call'.model_id ELSE call'.spec.id
            was == {i \in 1..Len(MODELS.by_id) : MODELS.by_id[i].id = id}
        IN /\ RegistryGet(MODELS', id) = Nothing
           /\ \A i \in was : \A a \in 1..Len(MODELS.by_id[i].aliases) :
                 RegistryGet(MODELS', MODELS.by_id[i].aliases[a]) = Nothing
           /\ \A i \in 1..Len(MODELS'.by_id) : MODELS'.by_id[i].id # id]_vars

\* ------------------------------------------------------------ the free tier

\* C21: every model that the registry lists under tier free is free (zero
\* input cost and zero output cost): the models of the hardcoded defaults, and
\* after a discover() every model that it classified and registered
C21_FreeTierIsFree ==
    LET defaults == list_by_tier(RegistryInit(Nothing), "free")
        free == list_by_tier(MODELS, "free")
    IN /\ \A i \in 1..Len(defaults) : is_free(defaults[i])
       /\ call.op = "discover" =>
             \A i \in 1..Len(free) :
                 (\E j \in 1..Len(call.data) :
                      /\ "id" \in DOMAIN call.data[j]
                      /\ free[i].id = "openrouter/" \o call.data[j].id)
                 => is_free(free[i])

\* --------------------------------------------------------- the fallback chain

\* C22: chat_with_fallbacks tries the pairs of the chain in chain order and
\* skips every pair whose provider the gateway does not have; it returns the
\* response of the first pair whose chat succeeds and tries no later pair;
\* it raises LLMGatewayError when every pair was skipped or failed with
\* LLMGatewayError, the empty chain included
C22_ChainOrder ==
    call.op = "chat_with_fallbacks" =>
        LET chain == call.fallback_chain
            has(k) == chain[k][1] \in gateway.providers
            r(k) == chat(gateway, chain[k][1], chain[k][2], call.answers[k])
            index(post) == CHOOSE k \in 1..Len(chain) : chain[k] = <<post.provider, post.model>>
            tried(k) == \E i \in 1..Len(posts) : index(posts[i]) = k
        IN /\ \A i \in 1..Len(posts) : has(index(posts[i]))
           /\ \A i, j \in 1..Len(posts) : i < j => index(posts[i]) <= index(posts[j])
           /\ \A k \in 1..Len(chain) :
                  (/\ has(k) /\ r(k).kind = "GatewayResponse"
                   /\ \A j \in 1..(k - 1) : has(j) => r(j).kind = "LLMGatewayError")
                  => /\ result = [kind |-> "GatewayResponse",
                                  value |-> [provider |-> chain[k][1], model |-> chain[k][2]]]
                     /\ \A j \in 1..Len(chain) : tried(j) <=> (has(j) /\ j <= k)
           /\ (\A k \in 1..Len(chain) : has(k) => r(k).kind = "LLMGatewayError")
                  => /\ result.kind = "LLMGatewayError"
                     /\ \A j \in 1..Len(chain) : tried(j) <=> has(j)

\* chat_with_fallbacks has skipped the first pair, tried the second, which
\* failed after two POSTs, and returned the response of the third
C22_Witness ==
    /\ call.op = "chat_with_fallbacks"
    /\ Len(call.fallback_chain) = 3
    /\ gateway.providers = {"cliproxy", "openrouter"}
    /\ gateway.max_retries = 1
    /\ result = [kind |-> "GatewayResponse",
                 value |-> [provider |-> "openrouter", model |-> "openrouter/perplexity/sonar-pro"]]
    /\ Len(posts) = 3
    /\ posts[1].provider = "cliproxy" /\ posts[2].provider = "cliproxy"
    /\ posts[3].provider = "openrouter"

\* ------------------------------------------------------------- escalation

\* C23: when the tier the task maps to holds no model that passes the
\* filters, route() looks into cheap, standard, premium, free in that order,
\* leaving out the mapped tier, and the tier and the model of the result are
\* of the first of them that holds such a model, whatever the later ones hold
C23_EscalationOrder ==
    call.op = "route" =>
        LET task_type == TaskMemo[call.task].task_type
            mapped == ScoreToTier(ScoreTask(call.task, task_type, MODELS, outcomes),
                                  task_type = "research")
            order == SelectSeq(<<"cheap", "standard", "premium", "free">>,
                               LAMBDA t : t # mapped)
            first == {i \in 1..Len(order) :
                        /\ EligibleIn(order[i]) # {}
                        /\ \A j \in 1..(i - 1) : EligibleIn(order[j]) = {}}
        IN (EligibleIn(mapped) = {} /\ first # {}) =>
              /\ Routed
              /\ \A i \in first :
                    /\ result.tier = order[i]
                    /\ \E k \in EligibleIn(order[i]) : MODELS.by_id[k] = result.model

\* route() has escalated to the cheap tier from the standard tier, which
\* holds no model that passes the filters, with such models in the premium
\* and the free tier too
C23_Witness ==
    /\ Routed
    /\ MappedTier = "standard"
    /\ EligibleIn(MappedTier) = {}
    /\ result.tier = "cheap"
    /\ result.model.tier = "cheap"
    /\ EligibleIn("premium") # {}
    /\ EligibleIn("free") # {}

\* C24 as stated: a tier that the escalation loop resolves to is never
\* cheaper than the tier the task maps to, in the order free < cheap <
\* standard < premium
C24_NeverCheaper ==
    (Routed /\ MappedTier # "research" /\ EligibleIn(MappedTier) = {}) =>
        TierRank(result.tier) >= TierRank(MappedTier)

\* C24: a tier that the escalation loop resolves to differs from the tier the
\* task maps to, and it is cheaper exactly when a paid tier below the mapped
\* tier holds a model that passes the filters, or no paid tier holds one
\* (the free tier is looked into last)
C24_CheaperWhen ==
    (Routed /\ MappedTier # "research" /\ EligibleIn(MappedTier) = {}) =>
        LET paid == {"cheap", "standard", "premium"} IN
        /\ result.tier # MappedTier
        /\ TierRank(result.tier) < TierRank(MappedTier)
              <=> \/ \E t \in paid : /\ TierRank(t) < TierRank(MappedTier)
                                     /\ EligibleIn(t) # {}
                  \/ \A t \in paid : EligibleIn(t) = {}

\* route() has resolved a task that maps to premium to the free tier
C24_Witness ==
    /\ Routed
    /\ MappedTier = "premium"
    /\ EligibleIn("premium") = {}
    /\ result.tier = "free"
    /\ result.model.tier = "free"

\* ------------------------------------------------------ the fallback list

\* C25: the fallbacks of a RouteResult are the first 4 of: the models of the
\* resolved tier that pass the filters, the primary left out, then those of
\* each higher tier in the order free, cheap, standard, premium (each tier
\* in catalog order); so none is of a tier cheaper than the resolved tier,
\* and a research result has fallbacks of the research tier only
C25_FallbackSequence ==
    Routed =>
        LET order == <<"free", "cheap", "standard", "premium">>
            of(tier) == SelectSeq(MODELS.by_id,
                                  LAMBDA m : /\ m.tier = tier
                                             /\ Passes(m)
                                             /\ m.id # result.model.id)
            above(k) == IF \E i \in 1..(k - 1) : order[i] = result.tier
                        THEN of(order[k]) ELSE <<>>
            all == of(result.tier) \o above(2) \o above(3) \o above(4)
            fb == result.fallbacks
        IN /\ fb = SubSeq(all, 1, Min(4, Len(all)))
           /\ \A i \in 1..Len(fb) :
                  \/ fb[i].tier = result.tier
                  \/ \E j, k \in 1..4 : j < k /\ order[j] = result.tier /\ order[k] = fb[i].tier
           /\ result.tier = "research" => \A i \in 1..Len(fb) : fb[i].tier = "research"

\* route() has returned a model of the cheap tier with fallbacks of the
\* standard and the premium tier, and none of the free tier, which holds
\* models that pass the filters
C25_Witness ==
    /\ Routed
    /\ result.tier = "cheap"
    /\ Len(result.fallbacks) = 3
    /\ result.fallbacks[1].tier = "standard"
    /\ result.fallbacks[3].tier = "premium"
    /\ EligibleIn("free") # {}

\* --------------------------------------------------------- the classifier

\* C26: _detect_task_type returns one of the eight tags for every task, the
\* empty one included: the tag of the first rule that matches, in the order
\* research, architect, trivial, simple, code, content, analysis, and
\* general when none matches
C26_FirstRule ==
    call.op = "_detect_task_type" =>
        LET lower == Lower(call.task)
            rules == << <<"research", \E i \in 1..Len(RESEARCH_KEYWORDS) :
                                          Contains(lower, RESEARCH_KEYWORDS[i])>>,
                        <<"architect", \/ Contains(lower, "architect")
                                       \/ ContainsThenOnLine(lower, "design", "system")
                                       \/ Contains(lower, "infrastructure")>>,
                        <<"trivial", ContainsAny(lower, {"typo", "format", "rename", "lint"})>>,
                        <<"simple", ContainsAny(lower, {"simple", "quick", "trivial"})>>,
                        <<"code", ContainsAny(lower, {"code", "implement", "function",
                                                      "class", "module", "api"})>>,
                        <<"content", ContainsAny(lower, {"write", "article", "content",
                                                         "blog", "documentation"})>>,
                        <<"analysis", ContainsAny(lower, {"analyze", "report", "data",
                                                          "metrics"})>> >>
        IN /\ result.kind = "str"
           /\ result.value \in {"research", "architect", "trivial", "simple", "code",
                                "content", "analysis", "general"}
           /\ \A i \in 1..Len(rules) :
                  (rules[i][2] /\ \A j \in 1..(i - 1) : ~rules[j][2])
                  => result.value = rules[i][1]
           /\ (\A i \in 1..Len(rules) : ~rules[i][2]) => result.value = "general"

\* _detect_task_type has returned research for a task with a research
\* keyword after a word of the code rule
C26_Witness ==
    /\ call.op = "_detect_task_type"
    /\ call.task = "code latest"
    /\ result.value = "research"

\* ------------------------------------------------------------ the retries

\* C28: _post_with_retry makes at most max_retries + 1 POSTs; an attempt
\* answered with 429, a 5xx status, a timeout or a connection error is
\* followed by another attempt as long as one is left; a 4xx status other
\* than 429 raises LLMGatewayError at once, the first successful attempt
\* returns its body, and running out of attempts raises LLMGatewayError
C28_BoundedRetry ==
    call.op = "_post_with_retry" =>
        LET n == Len(posts)
            Retried(a) == IF "raises" \in DOMAIN a
                          THEN a.raises \in {"TimeoutException", "ConnectError"}
                          ELSE a.status = 429 \/ a.status >= 500
            Refused(a) == /\ "status" \in DOMAIN a
                          /\ a.status \in 400..499 /\ a.status # 429
            Succeeded(a) == "status" \in DOMAIN a /\ a.status \in 200..299
        IN /\ n <= gateway.max_retries + 1
           /\ \A i \in 1..n :
                  /\ (Retried(posts[i].answer) /\ i < gateway.max_retries + 1) => i < n
                  /\ Refused(posts[i].answer) => (i = n /\ result.kind = "LLMGatewayError")
                  /\ Succeeded(posts[i].answer)
                     => (i = n /\ result = [kind |-> "dict", value |-> posts[i].answer.body])
           /\ (n = gateway.max_retries + 1 /\ Retried(posts[n].answer))
              => result.kind = "LLMGatewayError"

\* -------------------------------------------- the tier of a RouteResult

\* C29: the model of a RouteResult is of the tier of the RouteResult, also
\* when the escalation loop changed the tier; the score of the RouteResult
\* is the score of the task, which the escalation does not change
C29_ModelOfTier ==
    Routed =>
        /\ result.model.tier = result.tier
        /\ result.score = ScoreTask(call.task, DetectTaskType(call.task), MODELS, outcomes)

\* route() has escalated a task of the free band to the cheap tier: the
\* model is of the cheap tier and the score is below the cheap band
C29_Witness ==
    /\ Routed
    /\ result.score <= 25
    /\ ~ResearchTask
    /\ EligibleIn("free") = {}
    /\ result.tier = "cheap"
    /\ result.model.tier = "cheap"
    /\ ScoreToTier(result.score, FALSE) = "free"

\* --------------------------------------------------- the records of llm_call

\* C30: an llm_call without a model appends, when the chain returns a
\* response, exactly one record, a success record for the model the router
\* selected (whichever model of the chain answered), and appends nothing
\* otherwise; so an llm_call appends a fail record only with a model given
C30_AutoNeverFails ==
    [][call'.op = "execute" =>
          LET route == RouteCall(config, MODELS, outcomes, call'.prompt,
                                 IF call'.capability # "" THEN call'.capability ELSE None)
              added == outcomes' # outcomes
          IN /\ (call'.model = "" /\ result'.success) =>
                    /\ Len(outcomes') = Len(outcomes) + 1
                    /\ SubSeq(outcomes', 1, Len(outcomes)) = outcomes
                    /\ outcomes'[Len(outcomes')].outcome = "success"
                    /\ outcomes'[Len(outcomes')].model_id = route.model.id
             /\ (call'.model = "" /\ ~result'.success) => outcomes' = outcomes
             /\ (added /\ outcomes'[Len(outcomes')].outcome = "fail") => call'.model # ""
      ]_vars

\* an llm_call without a model has returned the response of a fallback
\* model, after the POSTs to the selected model failed, and the last record
\* of the log is a success record for the selected model
C30_Witness ==
    /\ call.op = "execute"
    /\ call.model = ""
    /\ result.success
    /\ Len(posts) > 1
    /\ posts[1].model # result.response.model
    /\ outcomes # <<>>
    /\ outcomes[Len(outcomes)].outcome = "success"
    /\ outcomes[Len(outcomes)].model_id = posts[1].model
    /\ outcomes[Len(outcomes)].timestamp = clock - 1

\* ------------------------------------------- two routers on one file

\* C27 as stated: with two routers on one outcome file, the file is, after
\* a router has written it, the saved log of that router, the last writer;
\* and the log of a router changes only by the append (and the trim) of
\* the record which that router records
C27_LastWriterWins ==
    [][/\ call'.op = "write_text" =>
              file' = SavedFile(IF call'.router = 1 THEN outcomes' ELSE peer'[1])
       /\ outcomes' # outcomes =>
              /\ call'.op = "record_outcome" /\ call'.router = 1
              /\ outcomes' = Appended(outcomes,
                                      NewRecord(call'.model_id, call'.task, call'.success,
                                                call'.latency_ms, clock))
       /\ (peer # Nothing /\ peer' # peer) =>
              /\ call'.op = "record_outcome" /\ call'.router = 2
              /\ peer'[1] = Appended(peer[1],
                                     NewRecord(call'.model_id, call'.task, call'.success,
                                               call'.latency_ms, clock))
      ]_vars

====
